---- MODULE Spec2Model ----
(***************************************************************************)
(* Dispatch core of the AutoRL repository: the asynchronous device         *)
(* manager (src/src/agent_service/device_manager.py), the queue-backed     *)
(* device pool used by the master backend (src/master_backend.py,          *)
(* src/autorl_project/src/runtime/device_manager.py), the two handoff      *)
(* orchestrators (src/master_agent_system.py,                              *)
(* src/autorl_project/src/orchestration/agent_orchestrator.py) and the     *)
(* circuit breaker (src/src/error_handling/circuit_breaker.py), followed   *)
(* by the retry and recovery layers around them: the dead letter queue     *)
(* and the recovery manager (src/src/error_handling/recovery.py), the      *)
(* with_retry decorator (src/src/error_handling/decorators.py), the        *)
(* robust orchestrator (src/src/orchestrator.py), the robust action        *)
(* executor (src/autorl_project/src/core/error_handling.py) and the        *)
(* quota of the agent service (src/src/agent_service/api_server.py).       *)
(*                                                                         *)
(* Each component has its own specification over its own variables; the    *)
(* variables of the other components stay at their initial values.         *)
(***************************************************************************)
EXTENDS Integers, Sequences, FiniteSets, TLC

VARIABLES
    \* ---- AsyncDeviceManager -------------------------------------------
    status,        \* device["status"] of every registered device
    rr_index,      \* self._rr_index
    sem_value,     \* free slots of self._semaphore
    sem_waiters,   \* schedule_task calls suspended in self._semaphore, FIFO
    tpc,           \* position of every schedule_task call
    tdev,          \* the local `device` of the call (NoDevice: none)
    tprev,         \* the local `prev_status` of the call
    status0,       \* the status every device was registered with (history)
    \* ---- DeviceManager pool + execute_with_orchestrator ----------------
    available_devices,  \* DeviceManager.available_devices (asyncio.Queue)
    ppc,                \* position of every execute_with_orchestrator call
    pdevice,            \* the local `device` of the call
    pctx,               \* context.state of the context the call got back
    \* ---- MasterAgentOrchestrator.execute_task --------------------------
    m_cfg,         \* which collaborators were injected (the others are None: mock), and self.max_handoffs
    m_pc,          \* "loop" | "after_loop" | "returned" | "raised"
    m_agent,       \* current_agent_name
    m_handoffs,    \* handoff_count
    m_ctx,         \* the AgentContext
    m_stages,      \* number of agent.execute calls made (history)
    m_rec,         \* how every recovery action run for the task ended (history)
    m_refl,        \* what the last reflection's planner call answered (history)
    \* ---- AgentOrchestrator.execute_workflow ----------------------------
    w_max,         \* the max_handoffs argument
    w_pc,          \* "loop" | "after_loop" | "returned" | "raised"
    w_agent,       \* current_agent_name
    w_handoffs,    \* handoff_count
    w_ctx,         \* the context dict
    w_stages,      \* number of agent.execute calls made (history)
    w_refl,        \* what the last reflect_and_correct call answered (history)
    \* ---- CircuitBreaker ------------------------------------------------
    cb_cfg,        \* self.config: failure_threshold, success_threshold, timeout (ticks)
    cb,            \* the breaker: _state, _failure_count, _success_count, _opened_at
    now,           \* time.time(), in ticks
    cpc,           \* position of every caller of call / call_async
    cresult,       \* how the caller's last call ended
    cretry,        \* retry_after of the caller's last CircuitBreakerOpenException
    cb_run,        \* failures recorded in a row since CLOSED with count 0 (history)
    cb_hrun,       \* successes recorded since HALF_OPEN was entered (history)
    cb_last,       \* the last operation on the breaker and the breaker before it (history)
    cb_streak,     \* counted failures recorded since the last recorded success (history)
    cgate,         \* the state the breaker reported when it let the caller's call through (history)
    cb_history,    \* _call_history: success of the recent calls, oldest first
    \* ---- CircuitBreakerManager -----------------------------------------
    reg,           \* self._breakers: the instance registered under every name (NoInst: none)
    reg_next,      \* number of CircuitBreaker instances created so far
    binst,         \* the breaker state of every instance
    bname,         \* the name every instance was created with
    reg_last,      \* the last operation on the manager and the state before it (history)
    \* ---- AsyncDeviceManager._execute_with_retries -----------------------
    rt_retries,    \* the retries argument
    rt_pc,         \* "loop" | "backoff" | "returned"
    rt_attempt,    \* attempt
    rt_backoff,    \* backoff, in half seconds
    rt_last_exc,   \* last_exc: "none" | "timeout" | "error" | "fatal"
    rt_result,     \* the dict returned
    rt_outcomes,   \* how every attempt made on the device ended (history)
    rt_sleeps,     \* the delays slept, in half seconds (history)
    \* ---- DeadLetterQueue -----------------------------------------------
    dq_ops,        \* every FailedOperation object created, in creation order
    dq_queue,      \* self._queue: the operations held, oldest first
    dq_index,      \* self._operation_index: operation_id -> operation (NoOp: no entry)
    dq_log,        \* the records appended to the dlq_<date>.jsonl file
    dq_now,        \* time.time(), in ticks (one tick is also one millisecond bucket of the ids)
    dq_spc,        \* the auto-retry loop: "sleep" | "loop" | "retrying"
    dq_sweep,      \* the operations of `retryable` the loop has not finished yet
    dq_wake,       \* when the loop's asyncio.sleep(retry_interval) ends
    dq_manual,     \* the operation a direct retry_operation call is awaiting on (NoOp: none)
    \* ---- RecoveryManager ------------------------------------------------
    rm_last,       \* the last recover call: its arguments, the operation it added, its result (history)
    \* ---- runtime DeviceManager (acquire with a wait budget) ----------------
    device_queue,  \* self.device_queue: the devices in the asyncio.Queue, oldest first
    aq_getters,    \* the queue's _getters: the acquire calls suspended in get(), FIFO
    aq_woken,      \* the suspended calls whose getter future a put has resolved
    aq_pc,         \* every acquire call: "idle" | "waiting" | "held" | "none" (it returned None)
    aq_timeout,    \* the timeout argument of the call (NoTimeout: None)
    aq_start,      \* when the call was made
    aq_device,     \* the device the call returned
    aq_now,        \* the event loop's clock, in ticks
    ro_pc,         \* RobustOrchestrator: position of execute_task_with_recovery
    ro_status,     \* task_state.status
    ro_agent,      \* task_state.current_agent
    ro_i,          \* actions of the plan executed so far
    ro_len,        \* len(plan_result["actions"])
    ro_calls,      \* collaborator calls made for the task (history)
    ro_recovery,   \* recovery-agent calls made for the task (history)
    ro_attempted,  \* task_state.context["recovery_attempted"]
    ro_cause,      \* kind of exception that ended the task (history)
    ro_done,       \* tasks returned so far
    rx_max,        \* RobustActionExecutor.max_retries
    rx_pc,         \* position of execute_with_recovery
    rx_attempt,    \* attempt, the loop variable
    rx_k,          \* calls on which the action raises before it succeeds
    rx_exc,        \* the exception the action raises
    rx_calls,      \* calls of the action made so far (history)
    rx_last,       \* last_error.code
    rx_recovered,  \* result of the last apply_recovery
    wr_cfg,        \* with_retry: max_attempts, delay, backoff, max_delay of the decorator
    wr_pc,         \* position of the wrapper
    wr_attempt,    \* attempt, the loop variable
    wr_delay,      \* current_delay
    wr_last,       \* last_exception, by the call that raised it (0: None)
    wr_outcomes,   \* what each call of the function did (history)
    wr_sleeps,     \* the delays slept between the calls (history)
    wr_raised,     \* the exception that left the wrapper
    bw_execute,    \* master_backend: agent.execute of every agent, as the task ids of the wrappers around the original method, outermost first
    bw_pc,         \* position of each execute_with_orchestrator call
    bw_saved,      \* original_execute of each call
    bw_stages,     \* stages the orchestrator ran for each call
    bw_events,     \* stage events broadcast: <<task running the stage, task_id of the event>> (history)
    q_quota,       \* store.users_db: quota of the user record the requests share
    q_used,        \* store.users_db: tasks_used of that record
    q_pc           \* position of each request in its endpoint function

dmVars   == <<status, rr_index, sem_value, sem_waiters, tpc, tdev, tprev, status0>>
poolVars == <<available_devices, ppc, pdevice, pctx>>
mVars    == <<m_cfg, m_pc, m_agent, m_handoffs, m_ctx, m_stages, m_rec, m_refl>>
wVars    == <<w_max, w_pc, w_agent, w_handoffs, w_ctx, w_stages, w_refl>>
cbVars   == <<cb_cfg, cb, now, cpc, cresult, cretry, cb_run, cb_hrun, cb_last,
             cb_streak, cgate, cb_history>>
regVars  == <<reg, reg_next, binst, bname, reg_last>>
rtVars   == <<rt_retries, rt_pc, rt_attempt, rt_backoff, rt_last_exc, rt_result,
             rt_outcomes, rt_sleeps>>
dlqVars  == <<dq_ops, dq_queue, dq_index, dq_log, dq_now, dq_spc, dq_sweep, dq_wake,
             dq_manual>>
rmVars   == <<rm_last>>
acqVars  == <<device_queue, aq_getters, aq_woken, aq_pc, aq_timeout, aq_start, aq_device,
             aq_now>>
roVars   == <<ro_pc, ro_status, ro_agent, ro_i, ro_len, ro_calls, ro_recovery, ro_attempted, ro_cause, ro_done>>
rxVars   == <<rx_max, rx_pc, rx_attempt, rx_k, rx_exc, rx_calls, rx_last, rx_recovered>>
wrVars   == <<wr_cfg, wr_pc, wr_attempt, wr_delay, wr_last, wr_outcomes, wr_sleeps, wr_raised>>
bwVars   == <<bw_execute, bw_pc, bw_saved, bw_stages, bw_events>>
qVars    == <<q_quota, q_used, q_pc>>
vars     == <<dmVars, poolVars, mVars, wVars, cbVars, regVars, rtVars, dlqVars, rmVars,
             acqVars, roVars, rxVars, wrVars, bwVars, qVars>>

-----------------------------------------------------------------------------
(* Bounds of the model *)

NumDevices == 3      \* devices registered with the AsyncDeviceManager
NumTasks   == 4      \* schedule_task calls that may be in flight at once
NumHealthTasks == 3  \* schedule_task calls in flight while device statuses are updated

NumPoolDevices == 3  \* devices added to the DeviceManager pool at startup
NumPoolTasks   == 4  \* execute_with_orchestrator calls that may be in flight at once

MaxPlan == 3         \* longest plan a planner collaborator returns

MaxActions == 3      \* longest plan the RobustOrchestrator's planner returns
MaxRoTasks == 2      \* tasks the RobustOrchestrator runs one after the other

MaxExecRetries == 3  \* largest max_retries of a RobustActionExecutor

MaxAttempts == 3     \* largest max_attempts of with_retry
MaxDelay    == 3     \* largest delay and max_delay of with_retry, in seconds
MaxBackoff  == 2     \* largest backoff of with_retry

NumBwTasks  == 2     \* execute_with_orchestrator calls that may be in flight at once
MaxBwStages == 2     \* stages the orchestrator runs for a task at most

MaxBudget == 5       \* largest max_handoffs passed to execute_workflow

MaxWindow == 2       \* largest window_size configured
NumRequests == 3     \* requests of one user that may be in flight at once
MaxQuota == 3        \* largest quota of a user record
MaxThreshold == 3    \* largest failure_threshold / success_threshold configured
MaxTimeout   == 3    \* longest cool-down configured, in ticks
MaxTime      == 4    \* the clock stops here
NumCallers   == 2    \* callers of call / call_async that may be in flight at once
TicksPerSecond == 2  \* resolution of the clock

NumNames == 2        \* service names asked of the CircuitBreakerManager
MaxOps        == 2   \* failed operations added to the dead-letter queue at most
MaxMemory     == 1   \* max_memory_items of the dead-letter queue
MaxOpRetries  == 1   \* largest max_retries of a failed operation
NumOpNames    == 1   \* operation names added to the dead-letter queue
MaxClock      == 2   \* the dead-letter queue's clock stops here
RetryInterval == 1   \* retry_interval of the dead-letter queue, in ticks

MaxRetries == 6      \* largest retries argument passed to schedule_task

MaxInsts == 2        \* CircuitBreaker instances the manager creates at most

NumAcqDevices == 1   \* devices added to the runtime DeviceManager
NumAcqCalls   == 2   \* acquire_device calls that may be in flight at once
MaxWait       == 2   \* longest wait budget passed to acquire_device, in ticks
MaxNow        == 3   \* the event loop's clock stops here

(* Program constants *)

max_handoffs == 15           \* MasterAgentOrchestrator.max_handoffs
max_recovery_attempts == 2   \* RecoveryAgent.max_recovery_attempts
MockPlanLen == 3             \* actions of PlanningAgent._mock_planning's plan

MaxConcurrent == 2   \* max_concurrent of the manager

NoDevice == 0
Devices  == 1..NumDevices
Tasks    == 1..NumTasks
HealthTasks == 1..NumHealthTasks
PoolDevices == 1..NumPoolDevices
PoolTasks   == 1..NumPoolTasks
Callers     == 1..NumCallers
Names       == 1..NumNames
Insts       == 1..MaxInsts

-----------------------------------------------------------------------------
(* AsyncDeviceManager *)

IsAvailable(st) == st \in {"active", "idle"}

\* get_available_devices(): the available devices in registration order
RECURSIVE AvailFrom(_, _)
AvailFrom(st, d) ==
    IF d > NumDevices THEN <<>>
    ELSE (IF IsAvailable(st[d]) THEN <<d>> ELSE <<>>) \o AvailFrom(st, d + 1)

get_available_devices(st) == AvailFrom(st, 1)

\* _select_device: [device |-> the device or NoDevice, rr |-> the new _rr_index]
_select_device(st, rr, preferred_id) ==
    IF preferred_id # NoDevice
    THEN [device |-> IF IsAvailable(st[preferred_id]) THEN preferred_id ELSE NoDevice,
          rr |-> rr]
    ELSE LET avail == get_available_devices(st) IN
         IF avail = <<>>
         THEN [device |-> NoDevice, rr |-> rr]
         ELSE LET i == (rr + 1) % Len(avail) IN
              [device |-> avail[i + 1], rr |-> i]

\* `async with self._semaphore` does not suspend when a slot is free and nobody waits
SemaphoreFree == sem_value > 0 /\ sem_waiters = <<>>

\* lines 72-73: prev_status = device.get("status"); device["status"] = "busy"
MarkBusy(t, d) ==
    /\ tprev' = [tprev EXCEPT ![t] = status[d]]
    /\ status' = [status EXCEPT ![d] = "busy"]
    /\ tpc' = [tpc EXCEPT ![t] = "running"]

\* schedule_task up to its first suspension: select the device, then either
\* take a free slot and mark the device busy, or suspend in the semaphore
ScheduleTask(t, preferred_id) ==
    /\ tpc[t] = "idle"
    /\ LET sel == _select_device(status, rr_index, preferred_id) IN
       /\ rr_index' = sel.rr
       /\ tdev' = [tdev EXCEPT ![t] = sel.device]
       /\ IF sel.device = NoDevice
          THEN \* lines 66-67: return {"success": False, "msg": "No available device"}
               UNCHANGED <<status, sem_value, sem_waiters, tpc, tprev>>
          ELSE IF SemaphoreFree
          THEN /\ sem_value' = sem_value - 1
               /\ MarkBusy(t, sel.device)
               /\ UNCHANGED sem_waiters
          ELSE /\ sem_waiters' = Append(sem_waiters, t)
               /\ tpc' = [tpc EXCEPT ![t] = "waiting"]
               /\ UNCHANGED <<status, sem_value, tprev>>
    /\ UNCHANGED status0
    /\ UNCHANGED <<poolVars, mVars, wVars, cbVars, regVars, rtVars, dlqVars, rmVars, acqVars, roVars, rxVars, wrVars, bwVars, qVars>>

\* the first waiter is resumed with a slot and marks its device busy
SemaphoreWake(t) ==
    /\ sem_waiters # <<>>
    /\ t = Head(sem_waiters)
    /\ sem_value > 0
    /\ sem_value' = sem_value - 1
    /\ sem_waiters' = Tail(sem_waiters)
    /\ MarkBusy(t, tdev[t])
    /\ UNCHANGED <<rr_index, tdev, status0>>
    /\ UNCHANGED <<poolVars, mVars, wVars, cbVars, regVars, rtVars, dlqVars, rmVars, acqVars, roVars, rxVars, wrVars, bwVars, qVars>>

\* line 79: prev_status or "active"
RestoreStatus(prev_status) == IF prev_status = "" THEN "active" ELSE prev_status

\* lines 77-79 and the exit of the semaphore: _execute_with_retries has
\* returned its result (success or failure) or an exception (a cancellation)
\* passes through; either way the finally restores the status, the slot is
\* freed and the call is over
FinishTask(t) ==
    /\ tpc[t] = "running"
    /\ status' = [status EXCEPT ![tdev[t]] = RestoreStatus(tprev[t])]
    /\ sem_value' = sem_value + 1
    /\ tpc' = [tpc EXCEPT ![t] = "idle"]
    /\ tdev' = [tdev EXCEPT ![t] = NoDevice]
    /\ tprev' = [tprev EXCEPT ![t] = ""]
    /\ UNCHANGED <<rr_index, sem_waiters, status0>>
    /\ UNCHANGED <<poolVars, mVars, wVars, cbVars, regVars, rtVars, dlqVars, rmVars, acqVars, roVars, rxVars, wrVars, bwVars, qVars>>

DMInit ==
    /\ status \in [Devices -> {"active", "idle"}]
    /\ status0 = status
    /\ rr_index = 0
    /\ sem_value = MaxConcurrent
    /\ sem_waiters = <<>>
    /\ tpc = [t \in Tasks |-> "idle"]
    /\ tdev = [t \in Tasks |-> NoDevice]
    /\ tprev = [t \in Tasks |-> ""]

DMOff ==
    /\ status = [d \in Devices |-> "active"]
    /\ status0 = status
    /\ rr_index = 0
    /\ sem_value = MaxConcurrent
    /\ sem_waiters = <<>>
    /\ tpc = [t \in Tasks |-> "idle"]
    /\ tdev = [t \in Tasks |-> NoDevice]
    /\ tprev = [t \in Tasks |-> ""]

\* update_device_status(device_id, status): the health of a registered device
\* is written into the same "status" entry that schedule_task marks busy
HealthStatuses == {"active", "degraded"}

UpdateDeviceStatus(d, st) ==
    /\ status[d] # st
    /\ status' = [status EXCEPT ![d] = st]
    /\ UNCHANGED <<rr_index, sem_value, sem_waiters, tpc, tdev, tprev, status0>>
    /\ UNCHANGED <<poolVars, mVars, wVars, cbVars, regVars, rtVars, dlqVars, rmVars, acqVars, roVars, rxVars, wrVars, bwVars, qVars>>

\* the manager while an operator updates device statuses
NextDMHealth ==
    \/ \E t \in HealthTasks, p \in Devices \cup {NoDevice} : ScheduleTask(t, p)
    \/ \E t \in HealthTasks : SemaphoreWake(t)
    \/ \E t \in HealthTasks : FinishTask(t)
    \/ \E d \in Devices, st \in HealthStatuses : UpdateDeviceStatus(d, st)

NextDM ==
    \/ \E t \in Tasks, p \in Devices \cup {NoDevice} : ScheduleTask(t, p)
    \/ \E t \in Tasks : SemaphoreWake(t)
    \/ \E t \in Tasks : FinishTask(t)

-----------------------------------------------------------------------------
(* DeviceManager pool and execute_with_orchestrator (production mode) *)

\* DeviceManager.acquire_device: available_devices.get(), which suspends the
\* caller while the queue is empty
acquire_device(t) ==
    /\ available_devices # <<>>
    /\ pdevice' = [pdevice EXCEPT ![t] = Head(available_devices)]
    /\ available_devices' = Tail(available_devices)

\* create_task(execute_task_workflow(...)): the call reaches line 421
PoolSubmit(t) ==
    /\ ppc[t] \in {"idle", "returned", "raised"}
    /\ ppc' = [ppc EXCEPT ![t] = "acquiring"]
    /\ pdevice' = [pdevice EXCEPT ![t] = NoDevice]
    /\ pctx' = [pctx EXCEPT ![t] = "idle"]
    /\ UNCHANGED available_devices
    /\ UNCHANGED <<dmVars, mVars, wVars, cbVars, regVars, rtVars, dlqVars, rmVars, acqVars, roVars, rxVars, wrVars, bwVars, qVars>>

\* lines 420-422: device = await state.device_manager.acquire_device()
PoolAcquire(t) ==
    /\ ppc[t] = "acquiring"
    /\ acquire_device(t)
    /\ ppc' = [ppc EXCEPT ![t] = "executing"]
    /\ UNCHANGED pctx
    /\ UNCHANGED <<dmVars, mVars, wVars, cbVars, regVars, rtVars, dlqVars, rmVars, acqVars, roVars, rxVars, wrVars, bwVars, qVars>>

\* lines 477-480: the release block of execute_with_orchestrator (its body is `pass`)
ReleaseBlock(t) == UNCHANGED available_devices

\* lines 466-482: execute_task returns a context in its terminal state; the
\* wrappers are restored, the release block runs and the context is returned
PoolReturn(t, final) ==
    /\ ppc[t] = "executing"
    /\ pctx' = [pctx EXCEPT ![t] = final]
    /\ ReleaseBlock(t)
    /\ ppc' = [ppc EXCEPT ![t] = "returned"]
    /\ UNCHANGED pdevice
    /\ UNCHANGED <<dmVars, mVars, wVars, cbVars, regVars, rtVars, dlqVars, rmVars, acqVars, roVars, rxVars, wrVars, bwVars, qVars>>

\* line 466: execute_task raises; nothing after it runs
PoolRaise(t) ==
    /\ ppc[t] = "executing"
    /\ ppc' = [ppc EXCEPT ![t] = "raised"]
    /\ UNCHANGED <<available_devices, pdevice, pctx>>
    /\ UNCHANGED <<dmVars, mVars, wVars, cbVars, regVars, rtVars, dlqVars, rmVars, acqVars, roVars, rxVars, wrVars, bwVars, qVars>>

PoolInit ==
    /\ available_devices = [i \in 1..NumPoolDevices |-> i]
    /\ ppc = [t \in PoolTasks |-> "idle"]
    /\ pdevice = [t \in PoolTasks |-> NoDevice]
    /\ pctx = [t \in PoolTasks |-> "idle"]

NextPool ==
    \/ \E t \in PoolTasks : PoolSubmit(t)
    \/ \E t \in PoolTasks : PoolAcquire(t)
    \/ \E t \in PoolTasks, f \in {"completed", "failed"} : PoolReturn(t, f)
    \/ \E t \in PoolTasks : PoolRaise(t)

-----------------------------------------------------------------------------
(* MasterAgentOrchestrator and its five agents (src/master_agent_system.py) *)

NoPlan  == 0 - 1     \* action_plan is None (or another falsy value)
BadPlan == 0 - 2     \* a truthy plan that is no dict (LLMPlanner returns lists)
Raises  == 0 - 3     \* the planner call raised

AgentNames == {"perception", "planning", "execution", "recovery", "reflection"}

\* failed_action: context.execution_result holds a 'failed_action'
MCtx0 == [state |-> "idle", handoff_to |-> "none", error |-> "none",
          plan |-> NoPlan, recovery_attempts |-> 0, failed_action |-> FALSE]

\* BaseAgent.handoff
handoff(ctx, next_agent) == [ctx EXCEPT !.handoff_to = next_agent]

\* PerceptionAgent.execute; out: "ok" | "raise"
PerceptionAgent_execute(ctx, out) ==
    LET c == [ctx EXCEPT !.state = "perception"] IN
    IF out = "ok"
    THEN handoff(c, "planning")
    ELSE handoff([c EXCEPT !.error = "err"], "recovery")

\* PlanningAgent.execute; out: the planner's answer (Raises, NoPlan, BadPlan or
\* the number of actions of the plan it returned)
PlanningAgent_execute(ctx, out) ==
    LET c == [ctx EXCEPT !.state = "planning"] IN
    IF out = Raises
    THEN handoff([c EXCEPT !.error = "err"], "recovery")
    ELSE IF out \in {NoPlan, BadPlan}
    THEN \* line 148 has assigned the plan, line 149's .get raises
         handoff([c EXCEPT !.plan = out, !.error = "err"], "recovery")
    ELSE handoff([c EXCEPT !.plan = out], "execution")

\* line 195 runs outside the try: it raises out of execute when the plan has no .get
ExecutionEscapes(ctx) == ctx.plan \in {NoPlan, BadPlan}

\* ExecutionAgent.execute; out: "ok" | "fail" (_mock_execution returns a result
\* without success, naming the failed action) | "raise" (_execute_with_appium
\* raises after the last attempt on an action: line 206 is not reached and
\* execution_result keeps its value)
ExecutionAgent_execute(ctx, out) ==
    LET c == [ctx EXCEPT !.state = "execution"] IN
    IF out = "ok"
    THEN [c EXCEPT !.state = "completed", !.handoff_to = "none", !.failed_action = FALSE]
    ELSE IF out = "fail"
    THEN handoff([c EXCEPT !.error = "err", !.failed_action = TRUE], "recovery")
    ELSE handoff([c EXCEPT !.error = "err"], "recovery")

\* a recovery agent without the bound on its attempts
RecoveryAgent_execute_uncapped(ctx, out) ==
    LET c == [ctx EXCEPT !.state = "recovery"] IN
    IF out \in {"ok", "false"}
    THEN handoff(c, "reflection")
    ELSE [c EXCEPT !.state = "failed", !.handoff_to = "none"]

\* RecoveryAgent.execute; out: "ok" | "false" (recover returned False: the error
\* was classified unrecoverable or every attempt failed) | "raise".  The value
\* recover returns is dropped by _recover_with_manager
RecoveryAgent_execute(ctx, out) ==
    LET c == [ctx EXCEPT !.state = "recovery"] IN
    IF c.recovery_attempts >= max_recovery_attempts
    THEN [c EXCEPT !.state = "failed", !.handoff_to = "none"]
    ELSE LET c1 == [c EXCEPT !.recovery_attempts = c.recovery_attempts + 1] IN
         IF out \in {"ok", "false"}
         THEN handoff(c1, "reflection")
         ELSE [c1 EXCEPT !.state = "failed", !.handoff_to = "none"]

\* ReflectionAgent._mock_reflection: the plan without its last action, or None
_mock_reflection(plan) == IF plan >= 0 /\ plan > 1 THEN plan - 1 ELSE NoPlan

\* ReflectionAgent.execute; out: the corrective plan (Raises, NoPlan, BadPlan or
\* its number of actions)
ReflectionAgent_execute(ctx, out) ==
    LET c == [ctx EXCEPT !.state = "reflection"] IN
    IF out \in {Raises, NoPlan}
    THEN [c EXCEPT !.state = "failed", !.handoff_to = "none"]
    ELSE handoff([c EXCEPT !.plan = out, !.error = "none"], "execution")

\* what each agent's collaborator may answer, by configuration
PerceptionOutcomes == IF m_cfg.perception THEN {"ok", "raise"} ELSE {"ok"}

PlanningOutcomes ==
    IF m_cfg.planner THEN {Raises, NoPlan, BadPlan} \cup (0..MaxPlan) ELSE {MockPlanLen}

ExecutionOutcomes(ctx) ==
    IF ctx.plan <= 0 THEN {"ok"}
    ELSE IF m_cfg.executor THEN {"ok", "raise"} ELSE {"ok", "fail"}

RecoveryOutcomes == IF m_cfg.recovery THEN {"ok", "false", "raise"} ELSE {"ok"}

ReflectionOutcomes(ctx) ==
    IF m_cfg.planner THEN {Raises, NoPlan, BadPlan} \cup (0..MaxPlan)
    ELSE {_mock_reflection(ctx.plan)}

\* a loop that forgets its budget
MLoopCond_NoBudget == m_agent # "none"

\* line 463: the loop condition
MLoopCond == m_agent # "none" /\ m_handoffs < m_cfg.max_handoffs

\* lines 477-486: after agent.execute returned c
MAfterExecute(c) ==
    /\ m_ctx' = c
    /\ m_stages' = m_stages + 1
    /\ IF c.handoff_to # "none"
       THEN /\ m_agent' = c.handoff_to
            /\ m_handoffs' = m_handoffs + 1
            /\ m_pc' = "loop"
       ELSE /\ m_pc' = "after_loop"
            /\ UNCHANGED <<m_agent, m_handoffs>>
    /\ UNCHANGED m_cfg
    /\ UNCHANGED <<dmVars, poolVars, wVars, cbVars, regVars, rtVars, dlqVars, rmVars, acqVars, roVars, rxVars, wrVars, bwVars, qVars>>

MGuard(name) == m_pc = "loop" /\ MLoopCond /\ m_agent = name

MPerception == MGuard("perception") /\ UNCHANGED <<m_rec, m_refl>> /\
    \E out \in PerceptionOutcomes : MAfterExecute(PerceptionAgent_execute(m_ctx, out))

MPlanning == MGuard("planning") /\ UNCHANGED <<m_rec, m_refl>> /\
    \E out \in PlanningOutcomes : MAfterExecute(PlanningAgent_execute(m_ctx, out))

MExecution == MGuard("execution") /\ ~ExecutionEscapes(m_ctx) /\ UNCHANGED <<m_rec, m_refl>> /\
    \E out \in ExecutionOutcomes(m_ctx) : MAfterExecute(ExecutionAgent_execute(m_ctx, out))

\* line 195 raises AttributeError out of execute and out of execute_task
MExecutionRaises ==
    /\ MGuard("execution") /\ ExecutionEscapes(m_ctx)
    /\ m_pc' = "raised"
    /\ m_stages' = m_stages + 1
    /\ UNCHANGED <<m_cfg, m_agent, m_handoffs, m_ctx, m_rec, m_refl>>
    /\ UNCHANGED <<dmVars, poolVars, wVars, cbVars, regVars, rtVars, dlqVars, rmVars, acqVars, roVars, rxVars, wrVars, bwVars, qVars>>

MRecovery == MGuard("recovery") /\
    \E out \in RecoveryOutcomes :
        /\ MAfterExecute(RecoveryAgent_execute(m_ctx, out))
        /\ m_rec' = IF m_ctx.recovery_attempts >= max_recovery_attempts
                    THEN m_rec
                    ELSE Append(m_rec, out)
        /\ UNCHANGED m_refl

MReflection == MGuard("reflection") /\ m_rec' = m_rec /\
    \E out \in ReflectionOutcomes(m_ctx) :
        /\ MAfterExecute(ReflectionAgent_execute(m_ctx, out))
        /\ m_refl' = out

\* lines 488-493: the loop was left (condition false, or break); the budget
\* check runs and the context is returned
MReturn ==
    /\ \/ m_pc = "after_loop"
       \/ m_pc = "loop" /\ ~MLoopCond
    /\ m_ctx' = IF m_handoffs >= m_cfg.max_handoffs
                THEN [m_ctx EXCEPT !.state = "failed", !.error = "Max handoffs exceeded"]
                ELSE m_ctx
    /\ m_pc' = "returned"
    /\ UNCHANGED <<m_cfg, m_agent, m_handoffs, m_stages, m_rec, m_refl>>
    /\ UNCHANGED <<dmVars, poolVars, wVars, cbVars, regVars, rtVars, dlqVars, rmVars, acqVars, roVars, rxVars, wrVars, bwVars, qVars>>

\* self.max_handoffs is 15 unless the owner of the orchestrator assigns another budget
MasterBudgets == (1..MaxBudget) \cup {max_handoffs}

MInit ==
    /\ m_cfg \in [perception : BOOLEAN, planner : BOOLEAN,
                  executor : BOOLEAN, recovery : BOOLEAN,
                  max_handoffs : MasterBudgets]
    /\ m_pc = "loop"
    /\ m_agent = "perception"
    /\ m_handoffs = 0
    /\ m_ctx = MCtx0
    /\ m_stages = 0
    /\ m_rec = <<>>
    /\ m_refl = NoPlan

NextMaster ==
    \/ MPerception
    \/ MPlanning
    \/ MExecution
    \/ MExecutionRaises
    \/ MRecovery
    \/ MReflection
    \/ MReturn

-----------------------------------------------------------------------------
(* AgentOrchestrator.execute_workflow and its four agents                  *)
(* (src/autorl_project/src/orchestration/agent_orchestrator.py).  A plan   *)
(* is a list here: its length, 0 for an empty (falsy) one.                 *)

WCtx0 == [state |-> "init", handoff_to |-> "none", ui_state |-> FALSE,
          plan |-> NoPlan, failed_action |-> FALSE, execution_success |-> "none"]

\* Agent.handoff_to
handoff_to(agent_name, ctx) == [ctx EXCEPT !.handoff_to = agent_name]

\* PerceptionAgent.execute of the workflow; out: "ok" | "empty" (a falsy ui_state)
WPerceptionAgent_execute(ctx, out) ==
    handoff_to("planning", [ctx EXCEPT !.ui_state = (out = "ok")])

\* PlanningAgent.execute of the workflow; out: the length of the plan returned
WPlanningAgent_execute(ctx, out) ==
    LET c == [ctx EXCEPT !.plan = out] IN
    IF out = 0 THEN handoff_to("reflection", c) ELSE handoff_to("execution", c)

\* ExecutionAgent.execute of the workflow; out: "ok" | "raise" (an action raised)
WExecutionAgent_execute(ctx, out) ==
    IF out = "ok"
    THEN [ctx EXCEPT !.execution_success = "true", !.handoff_to = "none"]
    ELSE handoff_to("reflection",
                    [ctx EXCEPT !.execution_success = "false", !.failed_action = TRUE])

\* ReflectionAgent.execute of the workflow; out: the length of the corrective plan
WReflectionAgent_execute(ctx, out) ==
    IF ~ctx.failed_action
    THEN [ctx EXCEPT !.handoff_to = "none"]
    ELSE IF out > 0
    THEN handoff_to("execution", [ctx EXCEPT !.plan = out])
    ELSE [ctx EXCEPT !.handoff_to = "none"]

\* the loop of a workflow that forgets its budget
WLoopCond_NoBudget == w_agent # "none"

\* line 197: the loop condition
WLoopCond == w_agent # "none" /\ w_handoffs < w_max

\* lines 206-214: after agent.execute returned c
WAfterExecute(c) ==
    /\ w_ctx' = c
    /\ w_stages' = w_stages + 1
    /\ IF c.handoff_to # "none"
       THEN /\ w_agent' = c.handoff_to
            /\ w_handoffs' = w_handoffs + 1
            /\ w_pc' = "loop"
       ELSE /\ w_pc' = "after_loop"
            /\ UNCHANGED <<w_agent, w_handoffs>>
    /\ UNCHANGED w_max
    /\ UNCHANGED <<dmVars, poolVars, mVars, cbVars, regVars, rtVars, dlqVars, rmVars, acqVars, roVars, rxVars, wrVars, bwVars, qVars>>

\* the model stops counting handoffs one past the largest budget
WGuard(name) == w_pc = "loop" /\ WLoopCond /\ w_agent = name /\ w_handoffs <= MaxBudget

WPerception == WGuard("perception") /\ UNCHANGED w_refl /\
    \E out \in {"ok", "empty"} : WAfterExecute(WPerceptionAgent_execute(w_ctx, out))

\* lines 62-63: a falsy ui_state makes planning raise
WPlanningEscapes(ctx) == ~ctx.ui_state

WPlanning == WGuard("planning") /\ ~WPlanningEscapes(w_ctx) /\ UNCHANGED w_refl /\
    \E out \in 0..MaxPlan : WAfterExecute(WPlanningAgent_execute(w_ctx, out))

WExecution == WGuard("execution") /\ UNCHANGED w_refl /\
    \E out \in {"ok", "raise"} : WAfterExecute(WExecutionAgent_execute(w_ctx, out))

WReflection == WGuard("reflection") /\
    \E out \in 0..MaxPlan :
        /\ WAfterExecute(WReflectionAgent_execute(w_ctx, out))
        /\ w_refl' = IF w_ctx.failed_action THEN out ELSE w_refl

\* an agent raises out of execute (no driver, a falsy ui_state, or a collaborator
\* called outside a try raises): the exception leaves execute_workflow
WAgentRaises ==
    /\ w_pc = "loop" /\ WLoopCond /\ w_handoffs <= MaxBudget
    /\ \/ w_agent \in {"perception", "planning"}
       \/ w_agent = "reflection" /\ w_ctx.failed_action
    /\ w_pc' = "raised"
    /\ w_stages' = w_stages + 1
    /\ UNCHANGED <<w_max, w_agent, w_handoffs, w_ctx, w_refl>>
    /\ UNCHANGED <<dmVars, poolVars, mVars, cbVars, regVars, rtVars, dlqVars, rmVars, acqVars, roVars, rxVars, wrVars, bwVars, qVars>>

\* lines 216-219: the loop was left; the context is returned as it is
WReturn ==
    /\ \/ w_pc = "after_loop"
       \/ w_pc = "loop" /\ ~WLoopCond
    /\ w_pc' = "returned"
    /\ UNCHANGED <<w_max, w_agent, w_handoffs, w_ctx, w_stages, w_refl>>
    /\ UNCHANGED <<dmVars, poolVars, mVars, cbVars, regVars, rtVars, dlqVars, rmVars, acqVars, roVars, rxVars, wrVars, bwVars, qVars>>

WInit ==
    /\ w_max \in 1..MaxBudget
    /\ w_pc = "loop"
    /\ w_agent = "perception"
    /\ w_handoffs = 0
    /\ w_ctx = WCtx0
    /\ w_stages = 0
    /\ w_refl = NoPlan

NextWorkflow ==
    \/ WPerception
    \/ WPlanning
    \/ WExecution
    \/ WReflection
    \/ WAgentRaises
    \/ WReturn

-----------------------------------------------------------------------------
(* CircuitBreaker (src/src/error_handling/circuit_breaker.py).  Time is    *)
(* counted in ticks, TicksPerSecond of them to the second.                 *)

NoTime  == 0 - 1     \* _opened_at is None
NoRetry == 0 - 1     \* the caller holds no CircuitBreakerOpenException
NoRun   == 0 - 1     \* the history counter does not apply

Breaker0 == [state |-> "closed", failure_count |-> 0, success_count |-> 0,
             opened_at |-> NoTime]

_transition_to_half_open(b) == [b EXCEPT !.state = "half_open", !.success_count = 0]

_transition_to_open(b, t) == [b EXCEPT !.state = "open", !.opened_at = t]

_transition_to_closed(b) ==
    [b EXCEPT !.state = "closed", !.failure_count = 0, !.success_count = 0,
              !.opened_at = NoTime]

\* line 95: self._opened_at and (time.time() - self._opened_at >= self.config.timeout)
CoolDownElapsed(b, t) ==
    b.opened_at # NoTime /\ b.opened_at # 0 /\ t - b.opened_at >= cb_cfg.timeout

\* a state property that waits for more than the timeout
state_strict(b, t) ==
    IF b.state = "open" /\ b.opened_at # NoTime /\ t - b.opened_at > cb_cfg.timeout
    THEN _transition_to_half_open(b)
    ELSE b

\* the state property: the breaker after the read; the value read is its state
state(b, t) ==
    IF b.state = "open" /\ CoolDownElapsed(b, t)
    THEN _transition_to_half_open(b)
    ELSE b

_record_success(b) ==
    IF b.state = "half_open"
    THEN LET b1 == [b EXCEPT !.success_count = b.success_count + 1] IN
         IF b1.success_count >= cb_cfg.success_threshold
         THEN _transition_to_closed(b1)
         ELSE b1
    ELSE IF b.state = "closed"
    THEN [b EXCEPT !.failure_count = IF b.failure_count - 1 > 0
                                     THEN b.failure_count - 1 ELSE 0]
    ELSE b

\* a _record_failure that reopens from HALF_OPEN without restarting the cool-down
_record_failure_stale(b, t) ==
    IF b.state = "half_open"
    THEN [b EXCEPT !.state = "open"]
    ELSE IF b.state = "closed"
    THEN LET b1 == [b EXCEPT !.failure_count = b.failure_count + 1] IN
         IF b1.failure_count >= cb_cfg.failure_threshold
         THEN _transition_to_open(b1, t)
         ELSE b1
    ELSE b

\* a _record_failure that opens one failure late
_record_failure_gt(b, t) ==
    IF b.state = "half_open"
    THEN _transition_to_open(b, t)
    ELSE IF b.state = "closed"
    THEN LET b1 == [b EXCEPT !.failure_count = b.failure_count + 1] IN
         IF b1.failure_count > cb_cfg.failure_threshold
         THEN _transition_to_open(b1, t)
         ELSE b1
    ELSE b

\* _record_failure of an exception that is not in excluded_exceptions
_record_failure(b, t) ==
    IF b.state = "half_open"
    THEN _transition_to_open(b, t)
    ELSE IF b.state = "closed"
    THEN LET b1 == [b EXCEPT !.failure_count = b.failure_count + 1] IN
         IF b1.failure_count >= cb_cfg.failure_threshold
         THEN _transition_to_open(b1, t)
         ELSE b1
    ELSE b

\* int(x) of a time span x >= 0 given in ticks: whole seconds, fraction dropped
int_seconds(ticks) == ticks \div TicksPerSecond

\* a retry_after that forgets the time already spent open
retry_after_full(b, t) == int_seconds(cb_cfg.timeout)

\* lines 177-181 and 52: retry_after of the CircuitBreakerOpenException
retry_after(b, t) ==
    LET time_until_retry == cb_cfg.timeout - (t - b.opened_at) IN
    int_seconds(IF time_until_retry > 0 THEN time_until_retry ELSE 0)

\* history: the run of recorded failures that started at CLOSED with count 0
RunAfter(op, b0, b1) ==
    IF b1.state = "closed" /\ b1.failure_count = 0 THEN 0
    ELSE IF cb_run = NoRun THEN NoRun
    ELSE IF b0.state = "closed" /\ op = "failure" THEN cb_run + 1
    ELSE IF b0.state = "closed" /\ op = "success" THEN NoRun
    ELSE IF b1.state = "half_open" THEN NoRun
    ELSE cb_run

\* history: the successes recorded since HALF_OPEN was entered
HalfRunAfter(op, b0, b1) ==
    IF b0.state = "half_open" /\ op = "success" THEN cb_hrun + 1
    ELSE IF b1.state = "half_open" /\ b0.state # "half_open" THEN 0
    ELSE IF b1.state = "half_open" THEN cb_hrun
    ELSE NoRun

\* history: the counted failures recorded in a row, up to failure_threshold;
\* a recorded success and reset() (which clears the call history) end the row
StreakAfter(op) ==
    IF op = "failure"
    THEN IF cb_streak < cb_cfg.failure_threshold THEN cb_streak + 1 ELSE cb_streak
    ELSE IF op \in {"success", "reset"} THEN 0
    ELSE cb_streak

\* an append that lets the history grow past the window
history_append_unbounded(h, x) == Append(h, x)

\* deque(maxlen=window_size).append: a full history drops its oldest entry
history_append(h, x) ==
    IF cb_cfg.window_size = 0 THEN h
    ELSE IF Len(h) >= cb_cfg.window_size THEN Append(Tail(h), x)
    ELSE Append(h, x)

\* _call_history after an operation: _record_success and a counted
\* _record_failure append, reset() clears
HistoryAfter(op) ==
    CASE op = "success" -> history_append(cb_history, TRUE)
      [] op = "failure" -> history_append(cb_history, FALSE)
      [] op = "reset"   -> <<>>
      [] OTHER          -> cb_history

\* every operation on the breaker: b0 before, b1 after
Apply(op, c, b1) ==
    /\ cb' = b1
    /\ cb_history' = HistoryAfter(op)
    /\ cb_run' = RunAfter(op, cb, b1)
    /\ cb_hrun' = HalfRunAfter(op, cb, b1)
    /\ cb_streak' = StreakAfter(op)
    /\ cb_last' = [op |-> op, caller |-> c, before |-> cb,
                   due |-> CoolDownElapsed(cb, now)]
    /\ UNCHANGED <<cb_cfg, now>>
    /\ UNCHANGED <<dmVars, poolVars, mVars, wVars, regVars, rtVars, dlqVars, rmVars, acqVars, roVars, rxVars, wrVars, bwVars, qVars>>

\* time passes
Tick ==
    /\ now < MaxTime
    /\ now' = now + 1
    /\ cb_last' = [op |-> "tick", caller |-> 0, before |-> cb,
                   due |-> CoolDownElapsed(cb, now)]
    /\ UNCHANGED <<cb_cfg, cb, cpc, cresult, cretry, cb_run, cb_hrun, cb_streak, cgate, cb_history>>
    /\ UNCHANGED <<dmVars, poolVars, mVars, wVars, regVars, rtVars, dlqVars, rmVars, acqVars, roVars, rxVars, wrVars, bwVars, qVars>>

\* somebody reads breaker.state
ReadState ==
    /\ Apply("read", 0, state(cb, now))
    /\ UNCHANGED <<cpc, cresult, cretry, cgate>>

\* call / call_async up to the invocation of func: lines 176-181 / 208-213
CallBegin(c) ==
    /\ cpc[c] = "idle"
    /\ LET b1 == state(cb, now) IN
       IF b1.state = "open"
       THEN /\ Apply("reject", c, b1)
            /\ cresult' = [cresult EXCEPT ![c] = "rejected"]
            /\ cretry' = [cretry EXCEPT ![c] = retry_after(b1, now)]
            /\ UNCHANGED <<cpc, cgate>>
       ELSE /\ Apply("begin", c, b1)
            /\ cpc' = [cpc EXCEPT ![c] = "calling"]
            /\ cresult' = [cresult EXCEPT ![c] = "none"]
            /\ cretry' = [cretry EXCEPT ![c] = NoRetry]
            /\ cgate' = [cgate EXCEPT ![c] = b1.state]

\* func returned: lines 185-186 / 217-218
CallSucceeds(c) ==
    /\ cpc[c] = "calling"
    /\ Apply("success", c, _record_success(cb))
    /\ cpc' = [cpc EXCEPT ![c] = "idle"]
    /\ cresult' = [cresult EXCEPT ![c] = "success"]
    /\ cgate' = [cgate EXCEPT ![c] = "none"]
    /\ UNCHANGED cretry

\* func raised: lines 187-189 / 219-221; excluded: the exception is one of
\* config.excluded_exceptions, which _record_failure does not count
CallFails(c, excluded) ==
    /\ cpc[c] = "calling"
    /\ IF excluded
       THEN Apply("excluded", c, cb)
       ELSE Apply("failure", c, _record_failure(cb, now))
    /\ cpc' = [cpc EXCEPT ![c] = "idle"]
    /\ cresult' = [cresult EXCEPT ![c] = "failure"]
    /\ cgate' = [cgate EXCEPT ![c] = "none"]
    /\ UNCHANGED cretry

\* reset()
Reset ==
    /\ Apply("reset", 0, _transition_to_closed(cb))
    /\ UNCHANGED <<cpc, cresult, cretry, cgate>>

CBInit ==
    /\ cb_cfg \in [failure_threshold : 1..MaxThreshold,
                   success_threshold : 1..MaxThreshold,
                   timeout : 1..MaxTimeout,
                   window_size : 0..MaxWindow]
    /\ cb = Breaker0
    /\ cb_history = <<>>
    /\ now = 1
    /\ cpc = [c \in Callers |-> "idle"]
    /\ cresult = [c \in Callers |-> "none"]
    /\ cretry = [c \in Callers |-> NoRetry]
    /\ cb_run = 0
    /\ cb_hrun = NoRun
    /\ cb_last = [op |-> "init", caller |-> 0, before |-> Breaker0, due |-> FALSE]
    /\ cb_streak = 0
    /\ cgate = [c \in Callers |-> "none"]

NextCB ==
    \/ Tick
    \/ ReadState
    \/ \E c \in Callers : CallBegin(c)
    \/ \E c \in Callers : CallSucceeds(c)
    \/ \E c \in Callers, x \in BOOLEAN : CallFails(c, x)
    \/ Reset

-----------------------------------------------------------------------------
(* CircuitBreakerManager (src/src/error_handling/circuit_breaker.py).      *)
(* Every breaker is created with config None, that is with the same        *)
(* default configuration, cb_cfg.  The circuit_breaker decorator keeps the *)
(* instance get_breaker returned to it, so outcomes are recorded on        *)
(* instances, registered or not.                                           *)

NoInst == 0     \* the name is not in self._breakers

Created == 1..reg_next

RegLast(op, name, i) ==
    reg_last' = [op |-> op, name |-> name, inst |-> i, reg |-> reg, binst |-> binst]

\* a get_breaker that builds a new breaker on every call
get_breaker_fresh(name) ==
    /\ reg_next < MaxInsts
    /\ reg' = [reg EXCEPT ![name] = reg_next + 1]
    /\ reg_next' = reg_next + 1
    /\ binst' = [binst EXCEPT ![reg_next + 1] = Breaker0]
    /\ bname' = [bname EXCEPT ![reg_next + 1] = name]
    /\ RegLast("get", name, reg_next + 1)
    /\ UNCHANGED <<dmVars, poolVars, mVars, wVars, cbVars, rtVars, dlqVars, rmVars, acqVars, roVars, rxVars, wrVars, bwVars, qVars>>

\* CircuitBreakerManager.get_breaker(name): lines 273-277
get_breaker(name) ==
    /\ IF reg[name] = NoInst
       THEN /\ reg_next < MaxInsts
            /\ reg' = [reg EXCEPT ![name] = reg_next + 1]
            /\ reg_next' = reg_next + 1
            /\ binst' = [binst EXCEPT ![reg_next + 1] = Breaker0]
            /\ bname' = [bname EXCEPT ![reg_next + 1] = name]
            /\ RegLast("get", name, reg_next + 1)
       ELSE /\ RegLast("get", name, reg[name])
            /\ UNCHANGED <<reg, reg_next, binst, bname>>
    /\ UNCHANGED <<dmVars, poolVars, mVars, wVars, cbVars, rtVars, dlqVars, rmVars, acqVars, roVars, rxVars, wrVars, bwVars, qVars>>

\* CircuitBreakerManager.remove_breaker(name)
remove_breaker(name) ==
    /\ reg' = [reg EXCEPT ![name] = NoInst]
    /\ RegLast("remove", name, reg[name])
    /\ UNCHANGED <<reg_next, binst, bname>>
    /\ UNCHANGED <<dmVars, poolVars, mVars, wVars, cbVars, rtVars, dlqVars, rmVars, acqVars, roVars, rxVars, wrVars, bwVars, qVars>>

\* CircuitBreakerManager.reset_all
reset_all ==
    /\ binst' = [i \in Insts |->
                    IF \E n \in Names : reg[n] = i
                    THEN _transition_to_closed(binst[i])
                    ELSE binst[i]]
    /\ RegLast("reset_all", 0, NoInst)
    /\ UNCHANGED <<reg, reg_next, bname>>
    /\ UNCHANGED <<dmVars, poolVars, mVars, wVars, cbVars, rtVars, dlqVars, rmVars, acqVars, roVars, rxVars, wrVars, bwVars, qVars>>

\* a call wrapped by the decorator of instance i failed: _record_failure
WrappedFails(i) ==
    /\ i \in Created
    /\ binst' = [binst EXCEPT ![i] = _record_failure(binst[i], now)]
    /\ RegLast("failure", bname[i], i)
    /\ UNCHANGED <<reg, reg_next, bname>>
    /\ UNCHANGED <<dmVars, poolVars, mVars, wVars, cbVars, rtVars, dlqVars, rmVars, acqVars, roVars, rxVars, wrVars, bwVars, qVars>>

\* a call wrapped by the decorator of instance i returned: _record_success
WrappedSucceeds(i) ==
    /\ i \in Created
    /\ binst' = [binst EXCEPT ![i] = _record_success(binst[i])]
    /\ RegLast("success", bname[i], i)
    /\ UNCHANGED <<reg, reg_next, bname>>
    /\ UNCHANGED <<dmVars, poolVars, mVars, wVars, cbVars, rtVars, dlqVars, rmVars, acqVars, roVars, rxVars, wrVars, bwVars, qVars>>

RegInit ==
    /\ reg = [n \in Names |-> NoInst]
    /\ reg_next = 0
    /\ binst = [i \in Insts |-> Breaker0]
    /\ bname = [i \in Insts |-> 0]
    /\ reg_last = [op |-> "init", name |-> 0, inst |-> NoInst,
                   reg |-> [n \in Names |-> NoInst],
                   binst |-> [i \in Insts |-> Breaker0]]

NextReg ==
    \/ \E n \in Names : get_breaker(n)
    \/ \E n \in Names : remove_breaker(n)
    \/ reset_all
    \/ \E i \in Insts : WrappedFails(i)
    \/ \E i \in Insts : WrappedSucceeds(i)

-----------------------------------------------------------------------------
(* The retry loop of the scheduler: AsyncDeviceManager._execute_with_retries *)
(* (src/src/agent_service/device_manager.py).  Delays are counted in half   *)
(* seconds.  An attempt on the device ends "ok", "timeout"                  *)
(* (asyncio.TimeoutError), "error" (a transient exception) or "fatal" (an   *)
(* exception that retrying cannot cure, such as a ValueError for an invalid *)
(* instruction).                                                            *)

BackoffBase == 1     \* backoff = 0.5
BackoffCap  == 10    \* min(backoff * 2, 5)

AttemptOutcomes == {"ok", "timeout", "error", "fatal"}

NoResult == [success |-> "none", attempts |-> 0, error |-> "none"]

\* a loop that gives up one attempt early
RtLoopCond_lt == rt_attempt < rt_retries

\* line 85: while attempt <= retries
RtLoopCond == rt_attempt <= rt_retries

\* line 99: if attempt <= retries
RtBackoffCond(attempt) == attempt <= rt_retries

\* line 101: backoff = min(backoff * 2, 5)
NextBackoff(backoff) == IF backoff * 2 < BackoffCap THEN backoff * 2 ELSE BackoffCap

\* lines 85-96: one pass of the loop up to the end of the try statement;
\* out is how the awaited execution ended
RtAttempt(out) ==
    /\ rt_pc = "loop"
    /\ RtLoopCond
    /\ rt_attempt' = rt_attempt + 1
    /\ rt_outcomes' = Append(rt_outcomes, out)
    /\ IF out = "ok"
       THEN /\ rt_result' = [success |-> "true", attempts |-> rt_attempt + 1,
                             error |-> "none"]
            /\ rt_pc' = "returned"
            /\ UNCHANGED rt_last_exc
       ELSE /\ rt_last_exc' = out
            /\ rt_pc' = IF RtBackoffCond(rt_attempt + 1) THEN "backoff" ELSE "loop"
            /\ UNCHANGED rt_result
    /\ UNCHANGED <<rt_retries, rt_backoff, rt_sleeps>>
    /\ UNCHANGED <<dmVars, poolVars, mVars, wVars, cbVars, regVars, dlqVars, rmVars, acqVars, roVars, rxVars, wrVars, bwVars, qVars>>

\* lines 100-101: await asyncio.sleep(backoff), then the next delay
RtBackoff ==
    /\ rt_pc = "backoff"
    /\ rt_sleeps' = Append(rt_sleeps, rt_backoff)
    /\ rt_backoff' = NextBackoff(rt_backoff)
    /\ rt_pc' = "loop"
    /\ UNCHANGED <<rt_retries, rt_attempt, rt_last_exc, rt_result, rt_outcomes>>
    /\ UNCHANGED <<dmVars, poolVars, mVars, wVars, cbVars, regVars, dlqVars, rmVars, acqVars, roVars, rxVars, wrVars, bwVars, qVars>>

\* line 103: the loop was left without a result
RtGiveUp ==
    /\ rt_pc = "loop"
    /\ ~RtLoopCond
    /\ rt_result' = [success |-> "false", attempts |-> rt_attempt - 1,
                     error |-> rt_last_exc]
    /\ rt_pc' = "returned"
    /\ UNCHANGED <<rt_retries, rt_attempt, rt_backoff, rt_last_exc, rt_outcomes, rt_sleeps>>
    /\ UNCHANGED <<dmVars, poolVars, mVars, wVars, cbVars, regVars, dlqVars, rmVars, acqVars, roVars, rxVars, wrVars, bwVars, qVars>>

RtInit ==
    /\ rt_retries \in 0..MaxRetries
    /\ rt_pc = "loop"
    /\ rt_attempt = 0
    /\ rt_backoff = BackoffBase
    /\ rt_last_exc = "none"
    /\ rt_result = NoResult
    /\ rt_outcomes = <<>>
    /\ rt_sleeps = <<>>

NextRetry ==
    \/ \E out \in AttemptOutcomes : RtAttempt(out)
    \/ RtBackoff
    \/ RtGiveUp

-----------------------------------------------------------------------------
(* DeadLetterQueue (src/src/error_handling/recovery.py).  An operation is  *)
(* known by its position in dq_ops; callers keep the FailedOperation       *)
(* objects they were given, so retry_operation may be handed any of them.  *)
(* A write of a record ends "ok", "fail" (open or write raised before      *)
(* anything was written) or "partial" (json.dump raised on a value that    *)
(* cannot be serialised after part of the line was written); the exception *)
(* is swallowed by _persist_operation in both cases.                       *)

NoOp == 0

OpNames == 1..NumOpNames
OpIds == OpNames \X (1..MaxClock)
Strategies == {"retry", "escalate"}
WriteOutcomes == {"ok", "fail", "partial"}

OpsMade == 1..Len(dq_ops)

\* operation_id = f"{operation_name}_{int(time.time() * 1000)}"
operation_id(name, t) == <<name, t>>

\* deque(maxlen=max_memory_items).append: a full deque drops its oldest item
deque_append(q, x) ==
    IF Len(q) < MaxMemory THEN Append(q, x) ELSE Append(Tail(q), x)

\* what _persist_operation leaves in the file: a record, whether all of it was
\* written, and whether it starts on the line a partial record left open
GluedNext(log) == Len(log) > 0 /\ ~log[Len(log)].whole

_persist_operation(log, o, w) ==
    IF w = "fail" THEN log
    ELSE Append(log, [op |-> o, resolved |-> FALSE, whole |-> (w = "ok"),
                      glued |-> GluedNext(log)])

\* DeadLetterQueue.add: lines 129-153
DqAdd(name, max_retries, strategy, w) ==
    /\ Len(dq_ops) < MaxOps
    /\ LET o == Len(dq_ops) + 1 IN
       /\ dq_ops' = Append(dq_ops, [id |-> operation_id(name, dq_now),
                                    retry_count |-> 0, max_retries |-> max_retries,
                                    strategy |-> strategy, last_retry_time |-> 0 - 1,
                                    resolved |-> FALSE])
       /\ dq_queue' = deque_append(dq_queue, o)
       /\ dq_index' = [dq_index EXCEPT ![operation_id(name, dq_now)] = o]
       /\ dq_log' = _persist_operation(dq_log, o, w)
    /\ UNCHANGED <<dq_now, dq_spc, dq_sweep, dq_wake, dq_manual>>
    /\ UNCHANGED <<dmVars, poolVars, mVars, wVars, cbVars, regVars, rtVars, rmVars, acqVars, roVars, rxVars, wrVars, bwVars, qVars>>

\* mark_resolved(operation_id) on the operations
mark_resolved(ops, id) ==
    IF dq_index[id] # NoOp
    THEN [ops EXCEPT ![dq_index[id]].resolved = TRUE]
    ELSE ops

DqMarkResolved(id) ==
    /\ dq_ops' = mark_resolved(dq_ops, id)
    /\ UNCHANGED <<dq_queue, dq_index, dq_log, dq_now, dq_spc, dq_sweep, dq_wake, dq_manual>>
    /\ UNCHANGED <<dmVars, poolVars, mVars, wVars, cbVars, regVars, rtVars, rmVars, acqVars, roVars, rxVars, wrVars, bwVars, qVars>>

\* get_pending_operations()
get_pending_operations == SelectSeq(dq_queue, LAMBDA o : ~dq_ops[o].resolved)

\* get_retryable_operations()
Retryable(o) ==
    /\ ~dq_ops[o].resolved
    /\ ~(dq_ops[o].retry_count >= dq_ops[o].max_retries)
    /\ dq_ops[o].strategy = "retry"
    /\ ~( /\ dq_ops[o].last_retry_time # 0 - 1
          /\ dq_ops[o].last_retry_time # 0
          /\ dq_now - dq_ops[o].last_retry_time < RetryInterval )

get_retryable_operations == SelectSeq(dq_queue, Retryable)

\* the position of the last operation of queue q that has the id, or NoOp
RECURSIVE LastWithId(_, _)
LastWithId(q, id) ==
    IF q = <<>> THEN NoOp
    ELSE IF dq_ops[q[Len(q)]].id = id THEN q[Len(q)]
    ELSE LastWithId(SubSeq(q, 1, Len(q) - 1), id)

\* clear_resolved()
DqClearResolved ==
    /\ dq_queue' = get_pending_operations
    /\ dq_index' = [id \in OpIds |-> LastWithId(get_pending_operations, id)]
    /\ UNCHANGED <<dq_ops, dq_log, dq_now, dq_spc, dq_sweep, dq_wake, dq_manual>>
    /\ UNCHANGED <<dmVars, poolVars, mVars, wVars, cbVars, regVars, rtVars, rmVars, acqVars, roVars, rxVars, wrVars, bwVars, qVars>>

\* retry_operation up to the call of retry_func: lines 242-243
RetryBegin(ops, o) ==
    [ops EXCEPT ![o].retry_count = ops[o].retry_count + 1,
                ![o].last_retry_time = dq_now]

\* retry_operation after retry_func: lines 258-260 and 262-275
RetryEnd(ops, o, ok) == IF ok THEN mark_resolved(ops, ops[o].id) ELSE ops

\* the model stops counting the retries of an operation one past its max_retries
RetryCounted(o) == dq_ops[o].retry_count <= dq_ops[o].max_retries

\* somebody calls retry_operation(operation, retry_func) directly
DqManualRetryBegin(o) ==
    /\ dq_manual = NoOp
    /\ o \in OpsMade
    /\ RetryCounted(o)
    /\ dq_ops' = RetryBegin(dq_ops, o)
    /\ dq_manual' = o
    /\ UNCHANGED <<dq_queue, dq_index, dq_log, dq_now, dq_spc, dq_sweep, dq_wake>>
    /\ UNCHANGED <<dmVars, poolVars, mVars, wVars, cbVars, regVars, rtVars, rmVars, acqVars, roVars, rxVars, wrVars, bwVars, qVars>>

DqManualRetryEnd(ok) ==
    /\ dq_manual # NoOp
    /\ dq_ops' = RetryEnd(dq_ops, dq_manual, ok)
    /\ dq_manual' = NoOp
    /\ UNCHANGED <<dq_queue, dq_index, dq_log, dq_now, dq_spc, dq_sweep, dq_wake>>
    /\ UNCHANGED <<dmVars, poolVars, mVars, wVars, cbVars, regVars, rtVars, rmVars, acqVars, roVars, rxVars, wrVars, bwVars, qVars>>

\* retry_loop: lines 331-335, the sleep is over
DqSweepWake ==
    /\ dq_spc = "sleep"
    /\ dq_now >= dq_wake
    /\ IF get_retryable_operations = <<>>
       THEN /\ dq_wake' = dq_now + RetryInterval
            /\ UNCHANGED <<dq_spc, dq_sweep>>
       ELSE /\ dq_sweep' = get_retryable_operations
            /\ dq_spc' = "loop"
            /\ UNCHANGED dq_wake
    /\ UNCHANGED <<dq_ops, dq_queue, dq_index, dq_log, dq_now, dq_manual>>
    /\ UNCHANGED <<dmVars, poolVars, mVars, wVars, cbVars, regVars, rtVars, rmVars, acqVars, roVars, rxVars, wrVars, bwVars, qVars>>

\* retry_loop: lines 339-341, the next operation of `retryable`
DqSweepRetryBegin ==
    /\ dq_spc = "loop"
    /\ RetryCounted(Head(dq_sweep))
    /\ dq_ops' = RetryBegin(dq_ops, Head(dq_sweep))
    /\ dq_spc' = "retrying"
    /\ UNCHANGED <<dq_queue, dq_index, dq_log, dq_now, dq_sweep, dq_wake, dq_manual>>
    /\ UNCHANGED <<dmVars, poolVars, mVars, wVars, cbVars, regVars, rtVars, rmVars, acqVars, roVars, rxVars, wrVars, bwVars, qVars>>

DqSweepRetryEnd(ok) ==
    /\ dq_spc = "retrying"
    /\ dq_ops' = RetryEnd(dq_ops, Head(dq_sweep), ok)
    /\ dq_sweep' = Tail(dq_sweep)
    /\ IF Tail(dq_sweep) = <<>>
       THEN dq_spc' = "sleep" /\ dq_wake' = dq_now + RetryInterval
       ELSE dq_spc' = "loop" /\ UNCHANGED dq_wake
    /\ UNCHANGED <<dq_queue, dq_index, dq_log, dq_now, dq_manual>>
    /\ UNCHANGED <<dmVars, poolVars, mVars, wVars, cbVars, regVars, rtVars, rmVars, acqVars, roVars, rxVars, wrVars, bwVars, qVars>>

DqTick ==
    /\ dq_now < MaxClock
    /\ dq_now' = dq_now + 1
    /\ UNCHANGED <<dq_ops, dq_queue, dq_index, dq_log, dq_spc, dq_sweep, dq_wake, dq_manual>>
    /\ UNCHANGED <<dmVars, poolVars, mVars, wVars, cbVars, regVars, rtVars, rmVars, acqVars, roVars, rxVars, wrVars, bwVars, qVars>>

DqInit ==
    /\ dq_ops = <<>>
    /\ dq_queue = <<>>
    /\ dq_index = [id \in OpIds |-> NoOp]
    /\ dq_log = <<>>
    /\ dq_now = 1
    /\ dq_spc = "sleep"
    /\ dq_sweep = <<>>
    /\ dq_wake = 1 + RetryInterval
    /\ dq_manual = NoOp

NextDLQ ==
    \/ \E n \in OpNames, m \in 1..MaxOpRetries, st \in Strategies, w \in WriteOutcomes :
          DqAdd(n, m, st, w)
    \/ \E id \in OpIds : DqMarkResolved(id)
    \/ DqClearResolved
    \/ \E o \in 1..MaxOps : DqManualRetryBegin(o)
    \/ \E ok \in BOOLEAN : DqManualRetryEnd(ok)
    \/ DqSweepWake
    \/ DqSweepRetryBegin
    \/ \E ok \in BOOLEAN : DqSweepRetryEnd(ok)
    \/ DqTick

-----------------------------------------------------------------------------
(* RecoveryManager (src/src/error_handling/recovery.py) over its dead-letter *)
(* queue.  An error is its severity and its recoverable flag; the strategy   *)
(* argument is "none" when the caller leaves it out.                         *)

DefaultMaxRetries == 3     \* max_retries of DeadLetterQueue.add when the caller gives none

Severities == {"error", "critical"}
AllStrategies == {"retry", "fallback", "ignore", "escalate"}

\* a manager that retries whatever is not critical
_determine_strategy_lax(severity, recoverable) ==
    IF severity = "critical" THEN "escalate" ELSE "retry"

\* RecoveryManager._determine_strategy
_determine_strategy(severity, recoverable) ==
    IF severity = "critical" THEN "escalate"
    ELSE IF recoverable THEN "retry"
    ELSE "escalate"

RmLast0 == [op |-> NoOp, severity |-> "none", recoverable |-> FALSE,
            supplied |-> "none", result |-> FALSE]

\* RecoveryManager.recover: the strategy is settled, the operation is added to
\* the queue with the default max_retries, and the handler of the strategy, if
\* one is registered, runs before recover returns (_handle_ignore returns True,
\* _handle_escalate and a missing handler give False)
RmRecover(name, severity, recoverable, supplied, w) ==
    /\ Len(dq_ops) < MaxOps
    /\ LET o == Len(dq_ops) + 1
           strategy == IF supplied = "none"
                       THEN _determine_strategy(severity, recoverable)
                       ELSE supplied
           added == Append(dq_ops, [id |-> operation_id(name, dq_now),
                                    retry_count |-> 0, max_retries |-> DefaultMaxRetries,
                                    strategy |-> strategy, last_retry_time |-> 0 - 1,
                                    resolved |-> FALSE])
       IN
       /\ dq_queue' = deque_append(dq_queue, o)
       /\ dq_index' = [dq_index EXCEPT ![operation_id(name, dq_now)] = o]
       /\ dq_log' = _persist_operation(dq_log, o, w)
       /\ dq_ops' = IF strategy = "ignore"
                    THEN \* _handle_ignore: mark_resolved(operation_id), the id maps to o now
                         [added EXCEPT ![o].resolved = TRUE]
                    ELSE added
       /\ rm_last' = [op |-> o, severity |-> severity, recoverable |-> recoverable,
                      supplied |-> supplied, result |-> (strategy = "ignore")]
    /\ UNCHANGED <<dq_now, dq_spc, dq_sweep, dq_wake, dq_manual>>
    /\ UNCHANGED <<dmVars, poolVars, mVars, wVars, cbVars, regVars, rtVars, acqVars, roVars, rxVars, wrVars, bwVars, qVars>>

RmInit == rm_last = RmLast0

RmOff == RmInit

\* the manager, the auto-retry loop of its queue and the operator's mark_resolved
\* and clear_resolved; nobody calls retry_operation but the loop
NextRM ==
    \/ \E n \in OpNames, sev \in Severities, r \in BOOLEAN,
          st \in AllStrategies \cup {"none"}, w \in WriteOutcomes :
          RmRecover(n, sev, r, st, w)
    \/ \E id \in OpIds : DqMarkResolved(id)
    \/ DqClearResolved
    \/ DqSweepWake
    \/ DqSweepRetryBegin
    \/ \E ok \in BOOLEAN : DqSweepRetryEnd(ok)
    \/ DqTick

-----------------------------------------------------------------------------
(* DeviceManager of src/src/runtime/device_manager.py: acquire_device with *)
(* a wait budget over an asyncio.Queue.  Queue.get suspends the caller on  *)
(* a getter future while the queue is empty; put resolves the first        *)
(* getter, and the resumed caller takes the head of the queue if something *)
(* is still there, else waits again.  wait_for cancels the suspended get   *)
(* when the budget is over.                                                *)

NoTimeout == 0 - 1
AcqDevices == 1..NumAcqDevices
AcqCalls == 1..NumAcqCalls
Timeouts == {NoTimeout} \cup (0..MaxWait)

AcqFrame == UNCHANGED <<dmVars, poolVars, mVars, wVars, cbVars, regVars, rtVars, dlqVars, rmVars, roVars, rxVars, wrVars, bwVars, qVars>>

\* line 42, `if timeout:` -- None and 0 are both falsy
HasBudget(timeout) == timeout # NoTimeout /\ timeout # 0

\* Queue.get_nowait by call t
TakeHead(t) ==
    /\ aq_device' = [aq_device EXCEPT ![t] = Head(device_queue)]
    /\ device_queue' = Tail(device_queue)
    /\ aq_pc' = [aq_pc EXCEPT ![t] = "held"]

\* _wakeup_next(self._getters): the first getter is resolved and leaves the deque
WakeupNext(getters, woken) ==
    IF getters = <<>> THEN [getters |-> getters, woken |-> woken]
    ELSE [getters |-> Tail(getters), woken |-> woken \cup {Head(getters)}]

\* acquire_device(timeout) up to its first suspension
AcquireDevice(t, timeout) ==
    /\ aq_pc[t] \in {"idle", "none"}
    /\ aq_timeout' = [aq_timeout EXCEPT ![t] = timeout]
    /\ aq_start' = [aq_start EXCEPT ![t] = aq_now]
    /\ IF device_queue # <<>>
       THEN TakeHead(t) /\ UNCHANGED aq_getters
       ELSE /\ aq_getters' = Append(aq_getters, t)
            /\ aq_pc' = [aq_pc EXCEPT ![t] = "waiting"]
            /\ aq_device' = [aq_device EXCEPT ![t] = NoDevice]
            /\ UNCHANGED device_queue
    /\ UNCHANGED <<aq_woken, aq_now>>
    /\ AcqFrame

\* the call resumes in Queue.get after a put resolved its getter
GetterResumes(t) ==
    /\ t \in aq_woken
    /\ aq_woken' = aq_woken \ {t}
    /\ IF device_queue # <<>>
       THEN TakeHead(t) /\ UNCHANGED aq_getters
       ELSE /\ aq_getters' = Append(aq_getters, t)
            /\ UNCHANGED <<device_queue, aq_pc, aq_device>>
    /\ UNCHANGED <<aq_timeout, aq_start, aq_now>>
    /\ AcqFrame

\* the budget of wait_for is over: the suspended get is cancelled (a getter
\* already resolved passes its wake-up on when the queue is not empty) and
\* acquire_device returns None
BudgetDue(t) ==
    /\ aq_pc[t] = "waiting"
    /\ HasBudget(aq_timeout[t])
    /\ aq_now >= aq_start[t] + aq_timeout[t]

AcquireTimesOut(t) ==
    /\ BudgetDue(t)
    /\ aq_pc' = [aq_pc EXCEPT ![t] = "none"]
    /\ IF t \in aq_woken
       THEN LET w == IF device_queue # <<>>
                     THEN WakeupNext(aq_getters, aq_woken \ {t})
                     ELSE [getters |-> aq_getters, woken |-> aq_woken \ {t}] IN
            /\ aq_getters' = w.getters
            /\ aq_woken' = w.woken
       ELSE /\ aq_getters' = SelectSeq(aq_getters, LAMBDA u : u # t)
            /\ UNCHANGED aq_woken
    /\ UNCHANGED <<device_queue, aq_timeout, aq_start, aq_device, aq_now>>
    /\ AcqFrame

\* release_device(device): Queue.put on an unbounded queue
ReleaseDevice(t) ==
    /\ aq_pc[t] = "held"
    /\ device_queue' = Append(device_queue, aq_device[t])
    /\ LET w == WakeupNext(aq_getters, aq_woken) IN
       /\ aq_getters' = w.getters
       /\ aq_woken' = w.woken
    /\ aq_pc' = [aq_pc EXCEPT ![t] = "idle"]
    /\ aq_device' = [aq_device EXCEPT ![t] = NoDevice]
    /\ UNCHANGED <<aq_timeout, aq_start, aq_now>>
    /\ AcqFrame

\* time passes; the loop runs the timers and the callbacks that are due first
AcqTick ==
    /\ aq_now < MaxNow
    /\ aq_woken = {}
    /\ \A t \in AcqCalls : ~BudgetDue(t)
    /\ aq_now' = aq_now + 1
    /\ UNCHANGED <<device_queue, aq_getters, aq_woken, aq_pc, aq_timeout, aq_start, aq_device>>
    /\ AcqFrame

\* __init__ and add_device: every device is in the queue
AcqInit ==
    /\ device_queue = [i \in 1..NumAcqDevices |-> i]
    /\ aq_getters = <<>>
    /\ aq_woken = {}
    /\ aq_pc = [t \in AcqCalls |-> "idle"]
    /\ aq_timeout = [t \in AcqCalls |-> NoTimeout]
    /\ aq_start = [t \in AcqCalls |-> 0]
    /\ aq_device = [t \in AcqCalls |-> NoDevice]
    /\ aq_now = 0

AcqOff == AcqInit

NextAcq ==
    \/ \E t \in AcqCalls, timeout \in Timeouts : AcquireDevice(t, timeout)
    \/ \E t \in AcqCalls : GetterResumes(t)
    \/ \E t \in AcqCalls : AcquireTimesOut(t)
    \/ \E t \in AcqCalls : ReleaseDevice(t)
    \/ AcqTick

-----------------------------------------------------------------------------
(* Claims about the AsyncDeviceManager, checked under SpecDM *)

BusyDevices == {d \in Devices : status[d] = "busy"}
Holders(d)  == {t \in Tasks : tpc[t] = "running" /\ tdev[t] = d}

\* C1: for every interleaving of concurrent schedule_task calls, the number of
\* devices whose status is "busy" never exceeds max_concurrent.
C1_BusyWithinLimit == Cardinality(BusyDevices) <= MaxConcurrent

\* C2: once all concurrently scheduled tasks have finished, no device is left
\* with status "busy" and each device again has the available status it had
\* before it was acquired.
C2_AllReleased ==
    (\A t \in Tasks : tpc[t] = "idle") =>
        \A d \in Devices : status[d] # "busy" /\ status[d] = status0[d]

\* C3: a device is borrowed by at most one task at a time: while one
\* schedule_task call holds a device, no other call runs its operation on the
\* same device, and the device is not shown as available.
C3_ExclusiveBorrow ==
    \A d \in Devices :
        /\ Cardinality(Holders(d)) <= 1
        /\ Holders(d) # {} => ~IsAvailable(status[d])

-----------------------------------------------------------------------------
(* Claims about the device pool, checked under SpecPool *)

InPool(d) == \E i \in DOMAIN available_devices : available_devices[i] = d

\* C4: a task run through execute_with_orchestrator that acquired a device
\* from the pool has returned that device to the pool once the orchestrator
\* reached its terminal state and the call returned, on completion and on
\* failure, so finished tasks never keep a later acquire_device waiting.
C4_DeviceReturned ==
    \A t \in PoolTasks :
        (ppc[t] = "returned" /\ pdevice[t] # NoDevice) => InPool(pdevice[t])

-----------------------------------------------------------------------------
(* Claims about the two orchestrators, checked under SpecOrch / SpecOrchFair *)

MTerminal == {"completed", "failed"}

MOver == m_pc \in {"returned", "raised"}
WOver == w_pc \in {"returned", "raised"}

\* C5: whatever the collaborators answer, the handoff loops of execute_task
\* (budget 15) and execute_workflow (budget max_handoffs) make at most the
\* budgeted number of handoffs, run at most that many stages, and end.
C5_HandoffTermination ==
    /\ [](/\ m_handoffs <= max_handoffs /\ m_stages <= max_handoffs
          /\ w_handoffs <= w_max /\ w_stages <= w_max)
    /\ <>[](MOver /\ WOver)

\* C5 witness: a workflow that went execution -> reflection -> execution until
\* its budget stopped it, and a master task that used both recovery attempts.
C5_Witness ==
    /\ w_pc = "returned" /\ w_max >= 4 /\ w_handoffs = w_max
    /\ w_ctx.handoff_to \in {"execution", "reflection"}
    /\ m_pc = "returned" /\ m_ctx.recovery_attempts = max_recovery_attempts

\* C6: every context an orchestrator returns is in a terminal state
\* (completed or failed) and, when failed, carries a non-null error.
C6_TerminalContext ==
    /\ m_pc = "returned" =>
          /\ m_ctx.state \in MTerminal
          /\ m_ctx.state = "failed" => m_ctx.error # "none"
    /\ w_pc = "returned" => w_ctx.state \in MTerminal

-----------------------------------------------------------------------------
(* Circuit breaker claims.  cb_last describes the operation that produced  *)
(* the current state: its kind, its caller, the breaker before it and      *)
(* whether the cool-down had elapsed when it ran.                          *)

\* the cool-down left at time t, in ticks
Remaining(b, t) == cb_cfg.timeout - (t - b.opened_at)

\* the last operation was a call or call_async on an OPEN breaker whose
\* cool-down had not elapsed
CallWhileOpen ==
    /\ cb_last.op \in {"begin", "reject"}
    /\ cb_last.before.state = "open"
    /\ ~cb_last.due

\* C7: starting from a closed breaker with a zero failure count, the breaker
\* stays CLOSED after fewer than failure_threshold consecutive counted
\* failures, and after exactly failure_threshold of them it is OPEN and a
\* read of state reports OPEN.
C7_TripsAtThreshold ==
    cb_run # NoRun =>
        /\ cb_run <= cb_cfg.failure_threshold
        /\ cb_run < cb_cfg.failure_threshold =>
              /\ cb.state = "closed"
              /\ state(cb, now).state = "closed"
        /\ cb_run = cb_cfg.failure_threshold =>
              /\ cb.state = "open"
              /\ (cb_last.op = "failure" /\ cb_last.before.state = "closed") =>
                    state(cb, now).state = "open"

C7_Witness ==
    /\ cb_cfg.failure_threshold >= 2
    /\ cb_run = cb_cfg.failure_threshold
    /\ cb_last.op = "failure"
    /\ cb_last.before.state = "closed"
    /\ cb.state = "open"

\* C8 (as stated): a call on an OPEN breaker whose cool-down has not elapsed is
\* rejected without invoking the wrapped function, leaves the breaker as it
\* was, and its retry-after hint equals the remaining cool-down.
C8_RetryAfterIsRemaining ==
    CallWhileOpen =>
        /\ cb_last.op = "reject"
        /\ cpc[cb_last.caller] = "idle"
        /\ cresult[cb_last.caller] = "rejected"
        /\ cb = cb_last.before
        /\ cretry[cb_last.caller] * TicksPerSecond = Remaining(cb, now)

\* C8 (amended): a call on an OPEN breaker whose cool-down has not elapsed is
\* rejected without invoking the wrapped function, leaves the breaker as it
\* was, and its retry-after hint is the remaining cool-down truncated to
\* whole seconds.
C8_RejectWhileOpen ==
    CallWhileOpen =>
        /\ cb_last.op = "reject"
        /\ cpc[cb_last.caller] = "idle"
        /\ cresult[cb_last.caller] = "rejected"
        /\ cb = cb_last.before
        /\ cretry[cb_last.caller] = Remaining(cb, now) \div TicksPerSecond
        /\ cretry[cb_last.caller] * TicksPerSecond <= Remaining(cb, now)

C8_Witness ==
    /\ CallWhileOpen
    /\ cb_last.op = "reject"
    /\ Remaining(cb, now) % TicksPerSecond # 0
    /\ cretry[cb_last.caller] >= 1

\* C9: once the cool-down of an OPEN breaker has elapsed, the next read of
\* state or call moves it to HALF_OPEN with a zero success count and the call
\* is let through; the successes counted in HALF_OPEN stay below
\* success_threshold, and the success that reaches success_threshold closes
\* the breaker with both counters at zero.
C9_HalfOpenRecovery ==
    /\ ( /\ cb_last.op \in {"read", "begin", "reject"}
         /\ cb_last.before.state = "open"
         /\ cb_last.due ) =>
            /\ cb_last.op # "reject"
            /\ cb.state = "half_open"
            /\ cb.success_count = 0
            /\ cb_last.op = "begin" => cpc[cb_last.caller] = "calling"
    /\ cb.state = "half_open" =>
            /\ cb_hrun = cb.success_count
            /\ cb_hrun < cb_cfg.success_threshold
    /\ (cb_last.op = "success" /\ cb_last.before.state = "half_open") =>
            IF cb_hrun = cb_cfg.success_threshold
            THEN /\ cb.state = "closed"
                 /\ cb.failure_count = 0
                 /\ cb.success_count = 0
            ELSE cb.state = "half_open"

C9_Witness ==
    /\ cb_cfg.success_threshold >= 2
    /\ cb_last.op = "success"
    /\ cb_last.before.state = "half_open"
    /\ cb_hrun = cb_cfg.success_threshold
    /\ cb.state = "closed"

Probes == {c \in Callers : cpc[c] = "calling" /\ cgate[c] = "half_open"}

\* C11: of the calls let through by a tripped breaker after its cool-down, at
\* most one is in flight at any time: no second call is let through until the
\* probe's outcome has been recorded.
C11_SingleProbe == Cardinality(Probes) <= 1

\* C12: a CLOSED breaker opens only when the last failure_threshold recorded
\* outcomes were all failures, with no success between them.
C12_TripsOnConsecutiveOnly ==
    ( /\ cb_last.op = "failure"
      /\ cb_last.before.state = "closed"
      /\ cb.state = "open" ) => cb_streak = cb_cfg.failure_threshold

-----------------------------------------------------------------------------
(* Claims about the CircuitBreakerManager, checked under SpecReg *)

-----------------------------------------------------------------------------
(* Claims about the retry loop, checked under SpecRetry *)

\* the delay of the i-th sleep of a loop that doubles from the base up to the cap
RECURSIVE Delay(_)
Delay(i) == IF i = 1 THEN BackoffBase
            ELSE IF Delay(i - 1) * 2 < BackoffCap THEN Delay(i - 1) * 2 ELSE BackoffCap

AllFailed == \A i \in 1..Len(rt_outcomes) : rt_outcomes[i] # "ok"

\* C14: an operation that fails on every attempt has been attempted exactly
\* retries + 1 times when the loop returns; the delays slept are the base
\* delay doubled each time up to the cap, hence non-decreasing and never above
\* the cap; one delay is slept between two attempts and none after the last.
C14_RetriesPlusOne ==
    /\ \A i \in 1..Len(rt_sleeps) :
          /\ rt_sleeps[i] = Delay(i)
          /\ rt_sleeps[i] <= BackoffCap
          /\ i > 1 => rt_sleeps[i - 1] <= rt_sleeps[i]
    /\ Len(rt_sleeps) <= Len(rt_outcomes)
    /\ Len(rt_sleeps) + 1 >= Len(rt_outcomes)
    /\ rt_pc = "backoff" => Len(rt_sleeps) + 1 = Len(rt_outcomes)
    /\ Len(rt_sleeps) <= rt_retries
    /\ (rt_pc = "returned" /\ AllFailed) =>
          /\ Len(rt_outcomes) = rt_retries + 1
          /\ Len(rt_sleeps) = rt_retries

C14_Witness ==
    /\ rt_pc = "returned"
    /\ AllFailed
    /\ rt_retries = MaxRetries
    /\ Len(rt_sleeps) >= 2
    /\ rt_sleeps[Len(rt_sleeps)] = BackoffCap
    /\ rt_sleeps[Len(rt_sleeps) - 1] = BackoffCap

\* C15: a fatal error ends the schedule at once: the attempt that raised it is
\* the last one made and no delay is slept after it.
C15_FatalAborts ==
    \A i \in 1..Len(rt_outcomes) :
        rt_outcomes[i] = "fatal" =>
            /\ i = Len(rt_outcomes)
            /\ Len(rt_sleeps) < i
            /\ rt_pc # "backoff"

\* C16: the returned outcome is a success, or a failure with the last error,
\* and the attempt count it reports is the number of attempts made on the
\* device.
C16_AttemptsReported ==
    rt_pc = "returned" =>
        /\ rt_result.success \in {"true", "false"}
        /\ rt_result.success = "false" => rt_result.error = rt_last_exc
        /\ rt_result.attempts = Len(rt_outcomes)

-----------------------------------------------------------------------------
(* Claims about the dead-letter queue, checked under SpecDLQ *)

Held == {dq_queue[i] : i \in 1..Len(dq_queue)}
Pending == {get_pending_operations[i] : i \in 1..Len(get_pending_operations)}

\* the records of operation o that can be read back from the log: written in
\* full, on a line of their own
RecordsOf(o) ==
    {i \in 1..Len(dq_log) : dq_log[i].op = o /\ dq_log[i].whole /\ ~dq_log[i].glued}

\* C17: the retry_count of a failed operation never exceeds its max_retries.
C17_RetryCountBounded ==
    \A o \in OpsMade : dq_ops[o].retry_count <= dq_ops[o].max_retries

\* C18: an operation that was added and has not been resolved is among the
\* pending operations.
C18_NeverDropped ==
    \A o \in OpsMade : ~dq_ops[o].resolved => o \in Pending

\* C19: an operation held in the in-memory queue has its record in the log.
C19_LogBeforeQueue ==
    \A o \in Held : RecordsOf(o) # {}

\* C20: every operation added has exactly one record in the log, written
\* with resolved = false.
C20_LoggedExactlyOnce ==
    \A o \in OpsMade :
        /\ Cardinality(RecordsOf(o)) = 1
        /\ \A i \in RecordsOf(o) : ~dq_log[i].resolved

-----------------------------------------------------------------------------
(* Claims about the RecoveryManager, checked under SpecRM *)

Swept == {dq_sweep[i] : i \in 1..Len(dq_sweep)}
Escalated == {o \in OpsMade : dq_ops[o].strategy = "escalate"}
Ignored == {o \in OpsMade : dq_ops[o].strategy = "ignore"}

\* C21: when no strategy is supplied, recover records the failure with
\* strategy escalate if the error is critical or non-recoverable and with
\* strategy retry for every other error; a supplied strategy is recorded
\* unchanged.
C21_StrategyRecorded ==
    rm_last.op # NoOp =>
        dq_ops[rm_last.op].strategy =
            IF rm_last.supplied # "none" THEN rm_last.supplied
            ELSE IF rm_last.severity = "critical" \/ ~rm_last.recoverable THEN "escalate"
            ELSE "retry"

C21_Witness ==
    /\ rm_last.op # NoOp
    /\ rm_last.supplied = "none"
    /\ rm_last.severity = "error"
    /\ ~rm_last.recoverable
    /\ dq_ops[rm_last.op].strategy = "escalate"

\* C22: an operation recorded with the escalate strategy is never retried
\* automatically: get_retryable_operations never returns it, the sweep never
\* retries it, its retry_count stays 0 and it stays unresolved until a
\* mark_resolved from outside resolves it (a step that neither adds an
\* operation nor moves the auto-retry loop); an operation recorded with the
\* ignore strategy is resolved and was never retried.
C22_EscalateNeverRetried ==
    /\ [](\A o \in Escalated :
            /\ o \notin Swept
            /\ \A i \in 1..Len(get_retryable_operations) : get_retryable_operations[i] # o
            /\ dq_ops[o].retry_count = 0)
    /\ [](\A o \in Ignored :
            dq_ops[o].resolved /\ dq_ops[o].retry_count = 0 /\ o \notin Swept)
    /\ [][\A o \in Escalated :
            (~dq_ops[o].resolved /\ dq_ops'[o].resolved) =>
                (dq_spc' = dq_spc /\ dq_sweep' = dq_sweep /\ Len(dq_ops') = Len(dq_ops))]_vars

-----------------------------------------------------------------------------
(* Claims about the master orchestrator's stages, checked under SpecMaster *)

\* C23: when the handoff counter reaches the handoff budget, the task is
\* forced to failed with a handoff-budget-exceeded error regardless of the
\* stage it was about to enter, that next stage is not executed, and a task
\* that completed within the budget is never overwritten to failed.
C23_BudgetForcesFailed ==
    /\ [](m_pc = "returned" /\ m_handoffs >= m_cfg.max_handoffs =>
            m_ctx.state = "failed" /\ m_ctx.error = "Max handoffs exceeded")
    /\ [][m_handoffs >= m_cfg.max_handoffs => m_stages' = m_stages]_vars
    /\ [][m_ctx.state = "completed" => m_ctx'.state = "completed"]_vars

C23_Witness ==
    /\ m_pc = "returned"
    /\ m_handoffs = m_cfg.max_handoffs
    /\ m_ctx.handoff_to = "execution"
    /\ m_ctx.state = "failed"
    /\ m_ctx.error = "Max handoffs exceeded"

\* a stage of the master orchestrator / of the workflow has just been executed
MStageStep(name) == m_pc = "loop" /\ m_agent = name /\ m_stages' = m_stages + 1
WStageStep(name) == w_pc = "loop" /\ w_agent = name /\ w_stages' = w_stages + 1

\* C24: from the planning stage the orchestrator hands off to execution only
\* if a non-empty plan was produced, to reflection if the plan is empty, and
\* to recovery if the planner fails (an exception, or an answer that is no plan).
C24_PlanningHandoff ==
    /\ [][MStageStep("planning") =>
            /\ m_pc' = "loop"
            /\ m_ctx'.handoff_to = "execution" => m_ctx'.plan > 0
            /\ m_ctx'.plan = 0 => m_ctx'.handoff_to = "reflection"
            /\ m_ctx'.error # "none" => m_ctx'.handoff_to = "recovery"]_vars
    /\ [][WStageStep("planning") =>
            /\ w_ctx'.handoff_to = "execution" => w_ctx'.plan > 0
            /\ w_ctx'.plan = 0 => w_ctx'.handoff_to = "reflection"
            /\ w_pc' = "raised" => w_ctx'.handoff_to = "recovery"]_vars

\* C25: the recovery stage hands off to reflection only if the recovery
\* action it ran succeeded, and ends the task failed if the recovery action
\* failed (it raised or reported failure) or if max_recovery_attempts (2)
\* recoveries were already used; the per-task counter never decreases, and at
\* most 2 recovery actions run per task.
C25_RecoveryHandoff ==
    /\ [][MStageStep("recovery") =>
            LET ran == Len(m_rec') = Len(m_rec) + 1 IN
            /\ m_ctx'.handoff_to = "reflection" => ran /\ m_rec'[Len(m_rec')] = "ok"
            /\ (ran /\ m_rec'[Len(m_rec')] # "ok") => m_ctx'.state = "failed"
            /\ m_ctx.recovery_attempts >= max_recovery_attempts =>
                    ~ran /\ m_ctx'.state = "failed"]_vars
    /\ [][m_ctx'.recovery_attempts >= m_ctx.recovery_attempts]_vars
    /\ [](Len(m_rec) <= max_recovery_attempts)

\* C26: from the reflection stage the orchestrator re-enters execution with
\* the task's plan replaced by the corrective plan if reflection produced one,
\* and otherwise ends the task failed, leaving the loop; it never re-enters
\* execution with the plan that just failed (the plan a mock reflection hands
\* over is shorter than the failed one).
C26_ReflectionHandoff ==
    /\ [][MStageStep("reflection") =>
            IF m_refl' \notin {Raises, NoPlan}
            THEN /\ m_ctx'.handoff_to = "execution" /\ m_pc' = "loop"
                 /\ m_ctx'.plan = m_refl'
                 /\ ~m_cfg.planner => m_ctx'.plan # m_ctx.plan
            ELSE /\ m_ctx'.state = "failed" /\ m_pc' = "after_loop"
                 /\ m_ctx'.plan = m_ctx.plan]_vars
    /\ [][WStageStep("reflection") /\ w_pc' # "raised" =>
            IF w_ctx.failed_action /\ w_refl' > 0
            THEN /\ w_ctx'.handoff_to = "execution" /\ w_pc' = "loop"
                 /\ w_ctx'.plan = w_refl'
            ELSE /\ w_ctx'.state = "failed" /\ w_pc' = "after_loop"
                 /\ w_ctx'.plan = w_ctx.plan]_vars

\* C27: if a plan step fails on every execution attempt, the orchestrator
\* hands off to recovery with the error and the failing action captured in the
\* context, recovery hands on to reflection while a recovery attempt is left
\* and the recovery action does not fail, and a corrective plan whose
\* re-execution succeeds ends the task completed with the earlier error cleared.
C27_FailRecoverReflectComplete ==
    /\ [][(MStageStep("execution") /\ m_pc' # "raised" /\ m_ctx'.state # "completed") =>
            /\ m_ctx'.handoff_to = "recovery"
            /\ m_ctx'.error # "none"
            /\ m_ctx'.failed_action]_vars
    /\ [][(MStageStep("recovery") /\ m_ctx.recovery_attempts < max_recovery_attempts
              /\ m_rec'[Len(m_rec')] = "ok") =>
            m_ctx'.handoff_to = "reflection"]_vars
    /\ [][(MStageStep("execution") /\ m_ctx'.state = "completed") =>
            m_ctx'.error = "none" /\ m_pc' = "after_loop"]_vars
    /\ [](m_pc = "returned" /\ m_handoffs < m_cfg.max_handoffs /\ m_rec # <<>>
            /\ m_ctx.state = "completed" => m_ctx.error = "none")

-----------------------------------------------------------------------------
(* Claims about device selection and device health, checked under SpecDMHealth *)

\* the device a round robin over the available devices returns
RoundRobinPick(st, rr) ==
    LET avail == get_available_devices(st) IN
    IF avail = <<>> THEN NoDevice ELSE avail[((rr + 1) % Len(avail)) + 1]

\* C28: device selection returns the preferred device when a preferred id is
\* given and that device is available; otherwise (no preferred id, or the
\* preferred device is not available) it selects among the available devices
\* by round robin, returning no device only when none is available.
C28_SelectionPolicy ==
    \A p \in Devices \cup {NoDevice} :
        LET sel == _select_device(status, rr_index, p).device IN
        /\ (p # NoDevice /\ IsAvailable(status[p])) => sel = p
        /\ (p = NoDevice \/ ~IsAvailable(status[p])) => sel = RoundRobinPick(status, rr_index)
        /\ sel = NoDevice => get_available_devices(status) = <<>>

\* the health the device record shows: update_device_status writes it to "status"
Health(st, d) == st[d]

\* C29: when a task releases a device whose health was marked degraded while
\* the task was running, the device is available again and the record still
\* shows the degraded health.
C29_ReleaseKeepsHealth ==
    [][\A t \in Tasks :
         (tpc[t] = "running" /\ tpc'[t] = "idle" /\ Health(status, tdev[t]) = "degraded") =>
             /\ IsAvailable(status'[tdev[t]])
             /\ Health(status', tdev[t]) = "degraded"]_vars

-----------------------------------------------------------------------------
(* Claims about acquire_device with a wait budget, checked under SpecAcq *)

AcqHolders(d) == {t \in AcqCalls : aq_pc[t] = "held" /\ aq_device[t] = d}
InQueue(d) == {i \in 1..Len(device_queue) : device_queue[i] = d}
Suspended == {aq_getters[i] : i \in 1..Len(aq_getters)} \cup aq_woken

\* C30: an acquire with a caller-specified wait budget does not wait past its
\* budget and then returns None; it returns None only once the budget is over
\* (it blocks up to the budget); the call that gave up leaves the queue as it
\* was and is no longer among the waiting calls, no device is lost or handed
\* out twice, a put is never left unnoticed by the calls still waiting, and an
\* acquire that finds a device in the queue gets it.
C30_AcquireBudget ==
    /\ [](\A t \in AcqCalls :
            /\ (aq_pc[t] = "waiting" /\ aq_timeout[t] # NoTimeout) =>
                    aq_now <= aq_start[t] + aq_timeout[t]
            /\ aq_pc[t] = "none" =>
                    /\ aq_timeout[t] # NoTimeout
                    /\ aq_now >= aq_start[t] + aq_timeout[t]
                    /\ t \notin Suspended)
    /\ [](\A d \in AcqDevices : Cardinality(AcqHolders(d)) + Cardinality(InQueue(d)) = 1)
    /\ []((device_queue # <<>> /\ aq_getters # <<>>) => aq_woken # {})
    /\ [][\A t \in AcqCalls :
            /\ (aq_pc[t] = "waiting" /\ aq_pc'[t] = "none") => device_queue' = device_queue
            /\ (aq_pc[t] \in {"idle", "none"} /\ aq_pc'[t] # aq_pc[t] /\ device_queue # <<>>) =>
                    aq_pc'[t] = "held" /\ aq_device'[t] = Head(device_queue)]_vars

-----------------------------------------------------------------------------
(* RobustOrchestrator.execute_task_with_recovery of src/src/orchestrator.py: *)
(* perception, planning and the plan's actions under wait_for, and the       *)
(* three except clauses.  What a collaborator returns or raises is the       *)
(* environment's choice.                                                     *)

RoFrame == UNCHANGED <<dmVars, poolVars, mVars, wVars, cbVars, regVars, rtVars, dlqVars, rmVars, acqVars, rxVars, wrVars, bwVars, qVars>>

\* what an awaited collaborator does: a usable result, a falsy one, the
\* wait_for timeout, a pydantic ValidationError, any other exception
CallOutcomes == {"ok", "empty", "timeout", "validation", "error"}
ActionCounts == 1..MaxActions

\* a handler that lets every clause call the recovery agent
RecoveryCall_always(kind) == IF kind = "timeout" THEN "timeout" ELSE "error"

\* the RecoveryAgent call of an except clause, by kind of exception
\* (lines 212 and 225; the ValidationError clause calls none)
RecoveryCall(kind) ==
    CASE kind = "timeout"    -> "timeout"
      [] kind = "validation" -> "none"
      [] kind = "error"      -> "error"

\* lines 206-227: the except clauses and the return
RoExcept(kind) ==
    /\ ro_status' = "failed"
    /\ ro_cause' = kind
    /\ ro_recovery' = IF RecoveryCall(kind) = "none" THEN ro_recovery ELSE ro_recovery + 1
    /\ ro_attempted' = RecoveryCall(kind)
    /\ ro_pc' = "returned"

\* the exception a stage raises for an outcome that is not a usable result;
\* a falsy result raises RuntimeError (lines 153, 171, 190)
Raised(out) == IF out = "empty" THEN "error" ELSE out

\* lines 137-146
RoStart ==
    /\ ro_pc = "idle"
    /\ ro_done < MaxRoTasks
    /\ ro_pc' = "perception"
    /\ ro_status' = "queued"
    /\ ro_agent' = "perception"
    /\ ro_i' = 0
    /\ ro_len' = 0
    /\ ro_calls' = 0
    /\ ro_recovery' = 0
    /\ ro_attempted' = "none"
    /\ ro_cause' = "none"
    /\ UNCHANGED ro_done
    /\ RoFrame

\* lines 148-161
RoPerception(out) ==
    /\ ro_pc = "perception"
    /\ ro_calls' = ro_calls + 1
    /\ IF out = "ok"
       THEN /\ ro_pc' = "planning"
            /\ ro_agent' = "planning"
            /\ UNCHANGED <<ro_status, ro_recovery, ro_attempted, ro_cause>>
       ELSE RoExcept(Raised(out)) /\ UNCHANGED ro_agent
    /\ UNCHANGED <<ro_i, ro_len, ro_done>>
    /\ RoFrame

\* lines 163-178
RoPlanning(out, n) ==
    /\ ro_pc = "planning"
    /\ ro_calls' = ro_calls + 1
    /\ IF out = "ok"
       THEN /\ ro_pc' = "execution"
            /\ ro_agent' = "execution"
            /\ ro_len' = n
            /\ UNCHANGED <<ro_status, ro_recovery, ro_attempted, ro_cause>>
       ELSE RoExcept(Raised(out)) /\ UNCHANGED <<ro_agent, ro_len>>
    /\ UNCHANGED <<ro_i, ro_done>>
    /\ RoFrame

\* lines 180-195: one action of the plan; after the last one the learning stage
RoExecution(out) ==
    /\ ro_pc = "execution"
    /\ ro_calls' = ro_calls + 1
    /\ IF out = "ok"
       THEN /\ ro_i' = ro_i + 1
            /\ IF ro_i + 1 = ro_len
               THEN ro_pc' = "learning" /\ ro_agent' = "learning"
               ELSE UNCHANGED <<ro_pc, ro_agent>>
            /\ UNCHANGED <<ro_status, ro_recovery, ro_attempted, ro_cause>>
       ELSE RoExcept(Raised(out)) /\ UNCHANGED <<ro_agent, ro_i>>
    /\ UNCHANGED <<ro_len, ro_done>>
    /\ RoFrame

\* lines 198-204: the learning update is a task of its own; the task completes
RoLearning ==
    /\ ro_pc = "learning"
    /\ ro_status' = "completed"
    /\ ro_pc' = "returned"
    /\ UNCHANGED <<ro_agent, ro_i, ro_len, ro_calls, ro_recovery, ro_attempted, ro_cause, ro_done>>
    /\ RoFrame

\* line 227: the TaskState is returned; the orchestrator is free for the next task
RoReturn ==
    /\ ro_pc = "returned"
    /\ ro_pc' = "idle"
    /\ ro_done' = ro_done + 1
    /\ UNCHANGED <<ro_status, ro_agent, ro_i, ro_len, ro_calls, ro_recovery, ro_attempted, ro_cause>>
    /\ RoFrame

RoInit ==
    /\ ro_pc = "idle"
    /\ ro_status = "queued"
    /\ ro_agent = "orchestrator"
    /\ ro_i = 0
    /\ ro_len = 0
    /\ ro_calls = 0
    /\ ro_recovery = 0
    /\ ro_attempted = "none"
    /\ ro_cause = "none"
    /\ ro_done = 0

RoOff == RoInit

NextRO ==
    \/ RoStart
    \/ \E out \in CallOutcomes : RoPerception(out)
    \/ \E out \in CallOutcomes, n \in ActionCounts : RoPlanning(out, n)
    \/ \E out \in CallOutcomes : RoExecution(out)
    \/ RoLearning
    \/ RoReturn

-----------------------------------------------------------------------------
(* Claims about RobustOrchestrator, checked under SpecRO *)

\* collaborator calls made when a stage raises: one per stage so far and one
\* per action of the plan up to the failing one
CallsUpTo(agent, i) ==
    CASE agent = "perception" -> 1
      [] agent = "planning"   -> 2
      [] agent = "execution"  -> 2 + i + 1
      [] OTHER                -> 0

\* C31: a task that execute_task_with_recovery returns is completed or
\* failed; when a ValidationError ended it, it is failed, the failing call was
\* made once and the recovery agent was not called; when a timeout or any
\* other error ended it, it is failed after exactly one recovery-agent call
\* of the matching kind; it is completed only when nothing was raised.
C31_ValidationAborts ==
    ro_pc = "returned" =>
        /\ ro_status \in {"completed", "failed"}
        /\ ro_cause = "validation" =>
              /\ ro_status = "failed"
              /\ ro_recovery = 0
              /\ ro_attempted = "none"
              /\ ro_calls = CallsUpTo(ro_agent, ro_i)
        /\ ro_cause \in {"timeout", "error"} =>
              /\ ro_status = "failed"
              /\ ro_recovery = 1
              /\ ro_attempted = ro_cause
              /\ ro_calls = CallsUpTo(ro_agent, ro_i)
        /\ ro_cause = "none" => ro_status = "completed" /\ ro_recovery = 0

C31_Witness ==
    /\ ro_pc = "returned"
    /\ ro_cause = "validation"
    /\ ro_agent = "execution"
    /\ ro_i > 0
    /\ ro_done > 0

-----------------------------------------------------------------------------
(* RobustActionExecutor.execute_with_recovery and ErrorClassifier of         *)
(* src/autorl_project/src/core/error_handling.py.  The action raises rx_exc  *)
(* on its first rx_k calls and returns its result afterwards.                *)

RxFrame == UNCHANGED <<dmVars, poolVars, mVars, wVars, cbVars, regVars, rtVars, dlqVars, rmVars, acqVars, roVars, wrVars, bwVars, qVars>>

ExecutorMaxRetries == 3    \* max_retries of RobustActionExecutor when the caller gives none

\* exceptions an action raises: the selenium ones and any other Exception
ActionExceptions == {"TimeoutException", "NoSuchElementException",
                     "StaleElementReferenceException", "WebDriverException", "Exception"}
ExecRetries == 1..MaxExecRetries
FailureCounts == 0..MaxExecRetries

\* ErrorClassifier.classify_error: code, recoverable and recovery_actions
classify_error(exception) ==
    CASE exception = "TimeoutException" ->
            [code |-> "TIMEOUT", recoverable |-> TRUE,
             recovery_actions |-> <<"wait_longer", "retry_with_different_locator", "refresh_page">>]
      [] exception = "NoSuchElementException" ->
            [code |-> "ELEMENT_NOT_FOUND", recoverable |-> TRUE,
             recovery_actions |-> <<"retry_with_xpath", "wait_for_element", "re_analyze_ui">>]
      [] exception = "StaleElementReferenceException" ->
            [code |-> "STALE_ELEMENT", recoverable |-> TRUE,
             recovery_actions |-> <<"re_locate_element", "refresh_ui_state">>]
      [] exception = "WebDriverException" ->
            [code |-> "WEBDRIVER_ERROR", recoverable |-> TRUE,
             recovery_actions |-> <<"restart_session", "reinitialize_driver">>]
      [] OTHER ->
            [code |-> "UNEXPECTED_ERROR", recoverable |-> FALSE,
             recovery_actions |-> <<"log_and_abort">>]

\* RecoveryStrategy._execute_recovery_action without a visual perception:
\* the actions that answer True (refresh_page with the executor's driver)
_execute_recovery_action(action) ==
    action \in {"wait_longer", "retry_with_different_locator", "refresh_page", "re_locate_element"}

\* RecoveryStrategy.apply_recovery: the first recovery action that succeeds
apply_recovery(error) ==
    /\ error.recoverable
    /\ \E i \in 1..Len(error.recovery_actions) : _execute_recovery_action(error.recovery_actions[i])

\* execute_with_recovery(action_func) is called
RxStart(n, k, exc) ==
    /\ rx_pc \in {"idle", "returned", "raised"}
    /\ rx_max' = n
    /\ rx_k' = k
    /\ rx_exc' = exc
    /\ rx_pc' = "loop"
    /\ rx_attempt' = 0
    /\ rx_calls' = 0
    /\ rx_last' = "none"
    /\ rx_recovered' = FALSE
    /\ RxFrame

\* one pass of the loop, lines 175-211: the action is awaited; its result is
\* returned, or the exception is classified, an unrecoverable one raises
\* AutoRLCriticalError, and before another attempt the recovery is applied
RxAttempt ==
    /\ rx_pc = "loop"
    /\ rx_attempt < rx_max
    /\ rx_calls' = rx_calls + 1
    /\ IF rx_calls >= rx_k
       THEN /\ rx_pc' = "returned"
            /\ UNCHANGED <<rx_attempt, rx_last, rx_recovered>>
       ELSE LET error == classify_error(rx_exc) IN
            /\ rx_last' = error.code
            /\ IF ~error.recoverable
               THEN rx_pc' = "raised" /\ UNCHANGED <<rx_attempt, rx_recovered>>
               ELSE /\ rx_attempt' = rx_attempt + 1
                    /\ rx_recovered' = IF rx_attempt < rx_max - 1
                                       THEN apply_recovery(error) ELSE rx_recovered
                    /\ UNCHANGED rx_pc
    /\ UNCHANGED <<rx_max, rx_k, rx_exc>>
    /\ RxFrame

\* lines 213-215: the loop is over, AutoRLCriticalError("Max retries exceeded")
RxExhausted ==
    /\ rx_pc = "loop"
    /\ rx_attempt >= rx_max
    /\ rx_pc' = "raised"
    /\ UNCHANGED <<rx_max, rx_k, rx_exc, rx_attempt, rx_calls, rx_last, rx_recovered>>
    /\ RxFrame

RxInit ==
    /\ rx_max = ExecutorMaxRetries
    /\ rx_pc = "idle"
    /\ rx_attempt = 0
    /\ rx_k = 0
    /\ rx_exc = "Exception"
    /\ rx_calls = 0
    /\ rx_last = "none"
    /\ rx_recovered = FALSE

RxOff == RxInit

NextRX ==
    \/ \E n \in ExecRetries, k \in FailureCounts, exc \in ActionExceptions : RxStart(n, k, exc)
    \/ RxAttempt
    \/ RxExhausted

-----------------------------------------------------------------------------
(* Claims about RobustActionExecutor, checked under SpecRX *)

\* execute_with_recovery is over: it returned or raised
RxOver == rx_pc \in {"returned", "raised"}

\* C32: when the action raises on its first k calls, k < max_retries, and
\* succeeds afterwards, execute_with_recovery returns the action's result
\* after calling the action exactly k + 1 times.
C32_ReturnsAfterKPlusOne ==
    (RxOver /\ rx_k < rx_max) => (rx_pc = "returned" /\ rx_calls = rx_k + 1)

-----------------------------------------------------------------------------
(* with_retry of src/src/error_handling/decorators.py: the wrapper around a *)
(* function (async_wrapper and sync_wrapper run the same loop).  An          *)
(* exception is named by the call that raised it; delays are whole seconds.  *)

WrFrame == UNCHANGED <<dmVars, poolVars, mVars, wVars, cbVars, regVars, rtVars, dlqVars, rmVars, acqVars, roVars, rxVars, bwVars, qVars>>

\* a call of the function returns, raises one of `exceptions`, or raises
\* an exception the except clause does not match
FuncOutcomes == {"ok", "raise", "other"}
WrConfigs == [max_attempts : 0..MaxAttempts, delay : 1..MaxDelay,
              backoff : 1..MaxBackoff, max_delay : 1..MaxDelay]

NoException == 0
TypeError == 0 - 1       \* `raise None`

\* a backoff without the cap
NextDelay_uncapped(current_delay, backoff, max_delay) == current_delay * backoff

\* line 195: min(current_delay * backoff, max_delay)
NextDelay(current_delay, backoff, max_delay) ==
    IF current_delay * backoff < max_delay THEN current_delay * backoff ELSE max_delay

\* the decorated function is called: lines 160-161
WrCall(cfg) ==
    /\ wr_pc \in {"idle", "returned", "raised"}
    /\ wr_cfg' = cfg
    /\ wr_pc' = "try"
    /\ wr_attempt' = 1
    /\ wr_delay' = cfg.delay
    /\ wr_last' = NoException
    /\ wr_outcomes' = <<>>
    /\ wr_sleeps' = <<>>
    /\ wr_raised' = NoException
    /\ WrFrame

\* lines 163-189: one call of the function; its result is returned, an
\* exception outside `exceptions` propagates, the last attempt re-raises
WrAttempt(out) ==
    /\ wr_pc = "try"
    /\ wr_attempt <= wr_cfg.max_attempts
    /\ wr_outcomes' = Append(wr_outcomes, out)
    /\ CASE out = "ok" ->
              /\ wr_pc' = "returned"
              /\ UNCHANGED <<wr_last, wr_raised>>
         [] out = "other" ->
              /\ wr_pc' = "raised"
              /\ wr_raised' = Len(wr_outcomes) + 1
              /\ UNCHANGED wr_last
         [] out = "raise" ->
              /\ wr_last' = Len(wr_outcomes) + 1
              /\ IF wr_attempt = wr_cfg.max_attempts
                 THEN wr_pc' = "raised" /\ wr_raised' = Len(wr_outcomes) + 1
                 ELSE wr_pc' = "sleep" /\ UNCHANGED wr_raised
    /\ UNCHANGED <<wr_cfg, wr_attempt, wr_delay, wr_sleeps>>
    /\ WrFrame

\* lines 192-195: the wait before the retry, then the backoff
WrSleep ==
    /\ wr_pc = "sleep"
    /\ wr_sleeps' = Append(wr_sleeps, wr_delay)
    /\ wr_delay' = NextDelay(wr_delay, wr_cfg.backoff, wr_cfg.max_delay)
    /\ wr_attempt' = wr_attempt + 1
    /\ wr_pc' = "try"
    /\ UNCHANGED <<wr_cfg, wr_last, wr_outcomes, wr_raised>>
    /\ WrFrame

\* line 198: the loop ran out, `raise last_exception`
WrLoopOver ==
    /\ wr_pc = "try"
    /\ wr_attempt > wr_cfg.max_attempts
    /\ wr_pc' = "raised"
    /\ wr_raised' = IF wr_last = NoException THEN TypeError ELSE wr_last
    /\ UNCHANGED <<wr_cfg, wr_attempt, wr_delay, wr_last, wr_outcomes, wr_sleeps>>
    /\ WrFrame

\* the defaults of the decorator, lines 134-137 (max_delay within the bound)
WrInit ==
    /\ wr_cfg = [max_attempts |-> 3, delay |-> 1, backoff |-> 2, max_delay |-> MaxDelay]
    /\ wr_pc = "idle"
    /\ wr_attempt = 1
    /\ wr_delay = 1
    /\ wr_last = NoException
    /\ wr_outcomes = <<>>
    /\ wr_sleeps = <<>>
    /\ wr_raised = NoException

WrOff == WrInit

NextWR ==
    \/ \E cfg \in WrConfigs : WrCall(cfg)
    \/ \E out \in FuncOutcomes : WrAttempt(out)
    \/ WrSleep
    \/ WrLoopOver

-----------------------------------------------------------------------------
(* Claims about with_retry, checked under SpecWR *)

\* the delay before retry i: the initial delay, then the delay before it
\* multiplied by backoff and capped at max_delay
RECURSIVE RetryDelay(_, _)
RetryDelay(cfg, i) ==
    IF i = 1 THEN cfg.delay
    ELSE LET d == RetryDelay(cfg, i - 1) * cfg.backoff IN
         IF d > cfg.max_delay THEN cfg.max_delay ELSE d

\* the calls made so far all raised an exception that with_retry retries
AllRaised == \A i \in 1..Len(wr_outcomes) : wr_outcomes[i] = "raise"

-----------------------------------------------------------------------------
(* Claims about the scheduler and the breaker of its dependency, checked   *)
(* under SpecSched: _execute_with_retries runs beside the other callers of *)
(* the dependency's CircuitBreaker.                                         *)

\* a pass of the scheduler's loop makes an attempt
SchedAttemptStep == rt_pc = "loop" /\ rt_attempt' = rt_attempt + 1

\* a caller asking the breaker now is rejected
BreakerRejects == state(cb, now).state = "open"

\* C34: every attempt of the scheduler goes through the breaker of the
\* operation's dependency: while the breaker is open the attempt fails fast
\* and the operation is not run on the device, and otherwise the attempt's
\* outcome is recorded on the breaker.
C34_AttemptsThroughBreaker ==
    [][SchedAttemptStep =>
          /\ BreakerRejects => rt_outcomes' = rt_outcomes
          /\ cb_last' # cb_last]_vars

-----------------------------------------------------------------------------
(* Claims about the CircuitBreaker's counters and call history, checked    *)
(* under SpecCBHistory                                                      *)

\* C35: in every state of a CircuitBreaker the failure count is below
\* failure_threshold while the state is CLOSED, the success count is below
\* success_threshold while it is HALF_OPEN, the trip timestamp is set exactly
\* while it is OPEN or HALF_OPEN, and the call history holds at most
\* window_size entries.
C35_CountersWithinThresholds ==
    /\ cb.state = "closed" => cb.failure_count < cb_cfg.failure_threshold
    /\ cb.state = "half_open" => cb.success_count < cb_cfg.success_threshold
    /\ cb.opened_at # NoTime <=> cb.state \in {"open", "half_open"}
    /\ Len(cb_history) <= cb_cfg.window_size

C35_Witness ==
    /\ cb.state = "half_open"
    /\ cb.success_count = 1
    /\ cb_cfg.window_size = 1
    /\ cb_history = <<TRUE>>
    /\ cb_last.op = "success"
    /\ cb_last.before.state = "half_open"

-----------------------------------------------------------------------------
(* Claims about the ids of the dead-letter queue, checked under SpecDLQ *)

\* C36: the ids add returned are unique among the operations held in the
\* queue, and the id add returned for an operation addresses that operation:
\* get(id) and mark_resolved(id) find it through the index.
C36_IdsUnique ==
    /\ \A o1 \in Held, o2 \in Held : o1 # o2 => dq_ops[o1].id # dq_ops[o2].id
    /\ \A o \in OpsMade : dq_index[dq_ops[o].id] = o

-----------------------------------------------------------------------------
(* Claims about the master orchestrator's handoff counter, checked under   *)
(* SpecMaster                                                               *)

\* C37: whatever the collaborators do, the handoff counter of execute_task
\* never exceeds 9, because the recovery agent gives up at its third call;
\* with the default budget of 15 the task never ends with "Max handoffs
\* exceeded".
C37_HandoffsAtMostNine ==
    /\ m_handoffs <= 9
    /\ m_cfg.max_handoffs = max_handoffs => m_ctx.error # "Max handoffs exceeded"

C37_Witness ==
    /\ m_cfg.max_handoffs = max_handoffs
    /\ m_pc = "returned"
    /\ m_handoffs = 9
    /\ m_ctx.state = "failed"
    /\ m_ctx.recovery_attempts = max_recovery_attempts

-----------------------------------------------------------------------------
(* execute_with_orchestrator of src/master_backend.py: the broadcast        *)
(* wrappers it installs on the agents of the shared orchestrator.  The      *)
(* install loop and the restore loop do not suspend and treat every agent   *)
(* alike, so all agents carry the same chain of wrappers.                   *)

BwFrame == UNCHANGED <<dmVars, poolVars, mVars, wVars, cbVars, regVars, rtVars, dlqVars, rmVars, acqVars, roVars, rxVars, wrVars, qVars>>

BwTasks == 1..NumBwTasks

\* the task ids of the events one call of agent.execute broadcasts: every
\* wrapper of the chain broadcasts with the task_id of its own closure
\* before it calls the function it wraps (lines 441-449)
BroadcastIds(execute) == {execute[i] : i \in 1..Len(execute)}

\* lines 425-463: the current execute methods are saved and wrapped
BwInstall(t) ==
    /\ bw_pc[t] = "idle"
    /\ bw_saved' = [bw_saved EXCEPT ![t] = bw_execute]
    /\ bw_execute' = <<t>> \o bw_execute
    /\ bw_pc' = [bw_pc EXCEPT ![t] = "running"]
    /\ UNCHANGED <<bw_stages, bw_events>>
    /\ BwFrame

\* execute_task runs a stage: agent.execute is looked up and awaited
\* (master_agent_system.py line 477)
BwStage(t) ==
    /\ bw_pc[t] = "running"
    /\ bw_stages[t] < MaxBwStages
    /\ bw_stages' = [bw_stages EXCEPT ![t] = bw_stages[t] + 1]
    /\ bw_events' = bw_events \cup {<<t, id>> : id \in BroadcastIds(bw_execute)}
    /\ UNCHANGED <<bw_execute, bw_pc, bw_saved>>
    /\ BwFrame

\* lines 473-482: execute_task returned; the saved methods are put back
BwRestore(t) ==
    /\ bw_pc[t] = "running"
    /\ bw_stages[t] > 0
    /\ bw_execute' = bw_saved[t]
    /\ bw_pc' = [bw_pc EXCEPT ![t] = "done"]
    /\ UNCHANGED <<bw_saved, bw_stages, bw_events>>
    /\ BwFrame

\* execute_task raised (the execution agent on a plan that is no dict): the
\* exception leaves execute_with_orchestrator before the restore loop
BwRaise(t) ==
    /\ bw_pc[t] = "running"
    /\ bw_stages[t] > 0
    /\ bw_pc' = [bw_pc EXCEPT ![t] = "raised"]
    /\ UNCHANGED <<bw_execute, bw_saved, bw_stages, bw_events>>
    /\ BwFrame

BwInit ==
    /\ bw_execute = <<>>
    /\ bw_pc = [t \in BwTasks |-> "idle"]
    /\ bw_saved = [t \in BwTasks |-> <<>>]
    /\ bw_stages = [t \in BwTasks |-> 0]
    /\ bw_events = {}

BwOff == BwInit

NextBW ==
    \/ \E t \in BwTasks : BwInstall(t)
    \/ \E t \in BwTasks : BwStage(t)
    \/ \E t \in BwTasks : BwRestore(t)
    \/ \E t \in BwTasks : BwRaise(t)

-----------------------------------------------------------------------------
(* Claims about the broadcast wrappers, checked under SpecBW *)

\* every call of execute_with_orchestrator has returned
BwAllReturned == \A t \in BwTasks : bw_pc[t] = "done"

\* C38: the stage events broadcast for a stage carry only the id of the task
\* that runs the stage, and once all tasks have finished every agent's
\* execute is the original method again, with no wrapper left around it.
C38_WrappersPerTask ==
    /\ \A e \in bw_events : e[2] = e[1]
    /\ BwAllReturned => bw_execute = <<>>

-----------------------------------------------------------------------------
(* The quota of src/src/agent_service/api_server.py: the requests of one    *)
(* user, whose record every request reads from store.users_db.  The         *)
(* handlers are coroutines on one event loop: a request runs without        *)
(* interruption up to its await and from its await to its return.           *)

QFrame == UNCHANGED <<dmVars, poolVars, mVars, wVars, cbVars, regVars, rtVars, dlqVars, rmVars, acqVars, roVars, rxVars, wrVars, bwVars>>

Requests == 1..NumRequests

\* line 174: the quota check of the endpoints
QuotaExceeded(tasks_used, quota) == tasks_used >= quota

\* POST /api/v1/execute (lines 58-71): get_user of auth.py returns the
\* record alone, a dict of four keys, and line 61 unpacks it into two
\* names, which raises ValueError before the quota is looked at
QExecute(r) ==
    /\ q_pc[r] = "idle"
    /\ q_pc' = [q_pc EXCEPT ![r] = "error"]
    /\ UNCHANGED <<q_quota, q_used>>
    /\ QFrame

\* POST /api/v1/execute/location-aware with the x-username header, up to
\* the await (lines 171-183): 402 when the quota is used up, else the task
\* is handed to the device manager
QLocationCheck(r) ==
    /\ q_pc[r] = "idle"
    /\ q_pc' = [q_pc EXCEPT ![r] =
                  IF QuotaExceeded(q_used, q_quota)
                  THEN "rejected" ELSE "awaiting"]
    /\ UNCHANGED <<q_quota, q_used>>
    /\ QFrame

\* the same endpoint from the await on (lines 184-210): schedule_task
\* returns a dict whatever happened to the task, and the task is counted
QLocationRecord(r) ==
    /\ q_pc[r] = "awaiting"
    /\ q_used' = q_used + 1
    /\ q_pc' = [q_pc EXCEPT ![r] = "scheduled"]
    /\ UNCHANGED q_quota
    /\ QFrame

\* users_db holds records with tasks_used at or below quota (store.py)
QInit ==
    /\ q_quota \in 1..MaxQuota
    /\ q_used \in 0..q_quota
    /\ q_pc = [r \in Requests |-> "idle"]

QOff ==
    /\ q_quota = 1
    /\ q_used = 0
    /\ q_pc = [r \in Requests |-> "idle"]

NextQ ==
    \/ \E r \in Requests : QExecute(r)
    \/ \E r \in Requests : QLocationCheck(r)
    \/ \E r \in Requests : QLocationRecord(r)

-----------------------------------------------------------------------------
(* Claims about the quota, checked under SpecQuota *)

\* C39: with concurrent requests of one user, tasks_used never exceeds
\* quota: a request is rejected whenever accepting it would take tasks_used
\* above the quota.
C39_QuotaNeverExceeded == q_used <= q_quota

-----------------------------------------------------------------------------
(* Specifications.  The components share no variable, so each is checked   *)
(* under its own specification, the others standing still.                 *)

PoolOff == PoolInit

MOff ==
    /\ m_cfg = [perception |-> FALSE, planner |-> FALSE,
                executor |-> FALSE, recovery |-> FALSE,
                max_handoffs |-> max_handoffs]
    /\ m_pc = "loop"
    /\ m_agent = "perception"
    /\ m_handoffs = 0
    /\ m_ctx = MCtx0
    /\ m_stages = 0
    /\ m_rec = <<>>
    /\ m_refl = NoPlan

WOff ==
    /\ w_max = 0
    /\ w_pc = "loop"
    /\ w_agent = "perception"
    /\ w_handoffs = 0
    /\ w_ctx = WCtx0
    /\ w_stages = 0
    /\ w_refl = NoPlan

RegOff == RegInit

DqOff == DqInit

RtOff ==
    /\ rt_retries = 0
    /\ rt_pc = "loop"
    /\ rt_attempt = 0
    /\ rt_backoff = BackoffBase
    /\ rt_last_exc = "none"
    /\ rt_result = NoResult
    /\ rt_outcomes = <<>>
    /\ rt_sleeps = <<>>

CBOff ==
    /\ cb_cfg = [failure_threshold |-> 1, success_threshold |-> 1, timeout |-> 1,
                 window_size |-> 0]
    /\ cb = Breaker0
    /\ cb_history = <<>>
    /\ now = 1
    /\ cpc = [c \in Callers |-> "idle"]
    /\ cresult = [c \in Callers |-> "none"]
    /\ cretry = [c \in Callers |-> NoRetry]
    /\ cb_run = 0
    /\ cb_hrun = NoRun
    /\ cb_last = [op |-> "init", caller |-> 0, before |-> Breaker0, due |-> FALSE]
    /\ cb_streak = 0
    /\ cgate = [c \in Callers |-> "none"]

Init == DMInit /\ PoolInit /\ MInit /\ WInit /\ CBInit /\ RegInit /\ RtInit /\ DqInit /\ RmInit /\ AcqOff /\ RoInit /\ RxInit /\ WrInit /\ BwInit /\ QInit
Next == NextDM \/ NextPool \/ NextMaster \/ NextWorkflow \/ NextCB \/ NextReg \/ NextRetry \/ NextDLQ
        \/ NextRM \/ NextAcq \/ NextRO \/ NextRX \/ NextWR \/ NextBW \/ NextQ
Spec == Init /\ [][Next]_vars

InitDM   == DMInit /\ PoolOff /\ MOff /\ WOff /\ CBOff /\ RegOff /\ RtOff /\ DqOff /\ RmOff /\ AcqOff /\ RoOff /\ RxOff /\ WrOff /\ BwOff /\ QOff
SpecDM   == InitDM /\ [][NextDM]_vars

\* every device registered active
InitDMHealth == InitDM /\ status = [d \in Devices |-> "active"]
SpecDMHealth == InitDMHealth /\ [][NextDMHealth]_vars

InitPool == DMOff /\ PoolInit /\ MOff /\ WOff /\ CBOff /\ RegOff /\ RtOff /\ DqOff /\ RmOff /\ AcqOff /\ RoOff /\ RxOff /\ WrOff /\ BwOff /\ QOff
SpecPool == InitPool /\ [][NextPool]_vars

\* both orchestrators, the master with its default budget
InitOrch ==
    /\ DMOff /\ PoolOff /\ MInit /\ WInit /\ CBOff /\ RegOff /\ RtOff /\ DqOff /\ RmOff /\ AcqOff /\ RoOff /\ RxOff /\ WrOff /\ BwOff /\ QOff
    /\ m_cfg.max_handoffs = max_handoffs
NextOrch == NextMaster \/ NextWorkflow
SpecOrch == InitOrch /\ [][NextOrch]_vars
SpecOrchFair == SpecOrch /\ WF_vars(NextOrch)

\* the master orchestrator alone, with any budget
InitMaster == DMOff /\ PoolOff /\ MInit /\ WOff /\ CBOff /\ RegOff /\ RtOff /\ DqOff /\ RmOff /\ AcqOff /\ RoOff /\ RxOff /\ WrOff /\ BwOff /\ QOff
SpecMaster == InitMaster /\ [][NextMaster]_vars

\* the breaker without its call history (window_size 0), which no
\* transition reads
InitCB   ==
    /\ DMOff /\ PoolOff /\ MOff /\ WOff /\ CBInit /\ RegOff /\ RtOff /\ DqOff /\ RmOff /\ AcqOff /\ RoOff /\ RxOff /\ WrOff /\ BwOff /\ QOff
    /\ cb_cfg.window_size = 0
SpecCB   == InitCB /\ [][NextCB]_vars

\* the breaker with its call history, every window size, and a cool-down
\* of one tick
InitCBHistory ==
    /\ DMOff /\ PoolOff /\ MOff /\ WOff /\ CBInit /\ RegOff /\ RtOff /\ DqOff /\ RmOff /\ AcqOff /\ RoOff /\ RxOff /\ WrOff /\ BwOff /\ QOff
    /\ cb_cfg.timeout = 1
SpecCBHistory == InitCBHistory /\ [][NextCB]_vars

\* the manager's breakers share the default configuration; only its
\* failure_threshold matters to a manager that never reads the clock
InitReg  ==
    /\ DMOff /\ PoolOff /\ MOff /\ WOff /\ CBInit /\ RegInit /\ RtOff /\ DqOff /\ RmOff /\ AcqOff /\ RoOff /\ RxOff /\ WrOff /\ BwOff /\ QOff
    /\ cb_cfg.success_threshold = 1
    /\ cb_cfg.timeout = 1
    /\ cb_cfg.window_size = 0
SpecReg  == InitReg /\ [][NextReg]_vars

InitRetry == DMOff /\ PoolOff /\ MOff /\ WOff /\ CBOff /\ RegOff /\ RtInit /\ DqOff /\ RmOff /\ AcqOff /\ RoOff /\ RxOff /\ WrOff /\ BwOff /\ QOff
SpecRetry == InitRetry /\ [][NextRetry]_vars

InitDLQ  == DMOff /\ PoolOff /\ MOff /\ WOff /\ CBOff /\ RegOff /\ RtOff /\ DqInit /\ RmOff /\ AcqOff /\ RoOff /\ RxOff /\ WrOff /\ BwOff /\ QOff
SpecDLQ  == InitDLQ /\ [][NextDLQ]_vars

InitRM   == DMOff /\ PoolOff /\ MOff /\ WOff /\ CBOff /\ RegOff /\ RtOff /\ DqInit /\ RmInit /\ AcqOff /\ RoOff /\ RxOff /\ WrOff /\ BwOff /\ QOff
SpecRM   == InitRM /\ [][NextRM]_vars

InitRO   == DMOff /\ PoolOff /\ MOff /\ WOff /\ CBOff /\ RegOff /\ RtOff /\ DqOff /\ RmOff /\ AcqOff /\ RoInit /\ RxOff /\ WrOff /\ BwOff /\ QOff
SpecRO   == InitRO /\ [][NextRO]_vars

InitRX   == DMOff /\ PoolOff /\ MOff /\ WOff /\ CBOff /\ RegOff /\ RtOff /\ DqOff /\ RmOff /\ AcqOff /\ RoOff /\ RxInit /\ WrOff /\ BwOff /\ QOff
SpecRX   == InitRX /\ [][NextRX]_vars

InitWR   == DMOff /\ PoolOff /\ MOff /\ WOff /\ CBOff /\ RegOff /\ RtOff /\ DqOff /\ RmOff /\ AcqOff /\ RoOff /\ RxOff /\ WrInit /\ BwOff /\ QOff
SpecWR   == InitWR /\ [][NextWR]_vars

\* the scheduler beside the callers of its dependency's breaker; one
\* configuration of the breaker and at most one retry
InitSched ==
    /\ DMOff /\ PoolOff /\ MOff /\ WOff /\ CBInit /\ RegOff /\ RtInit /\ DqOff /\ RmOff /\ AcqOff /\ RoOff /\ RxOff /\ WrOff /\ BwOff /\ QOff
    /\ cb_cfg = [failure_threshold |-> 1, success_threshold |-> 1, timeout |-> 1,
                 window_size |-> 0]
    /\ rt_retries <= 1
NextSched == NextRetry \/ NextCB
SpecSched == InitSched /\ [][NextSched]_vars

InitBW   == DMOff /\ PoolOff /\ MOff /\ WOff /\ CBOff /\ RegOff /\ RtOff /\ DqOff /\ RmOff /\ AcqOff /\ RoOff /\ RxOff /\ WrOff /\ BwInit /\ QOff
SpecBW   == InitBW /\ [][NextBW]_vars

InitQuota == DMOff /\ PoolOff /\ MOff /\ WOff /\ CBOff /\ RegOff /\ RtOff /\ DqOff /\ RmOff /\ AcqOff /\ RoOff /\ RxOff /\ WrOff /\ BwOff /\ QInit
SpecQuota == InitQuota /\ [][NextQ]_vars

InitAcq  ==
    /\ DMOff /\ PoolOff /\ MOff /\ WOff /\ CBOff /\ RegOff /\ RtOff /\ DqOff /\ RmOff /\ RoOff /\ RxOff /\ WrOff /\ BwOff /\ QOff
    /\ AcqInit
SpecAcq  == InitAcq /\ [][NextAcq]_vars

====
